---- MODULE Spec2Model ----
(***************************************************************************)
(* Haimer-Probe dial reader (haimer_camera.py): the per-frame measurement  *)
(* cycle get_measurement, its keyboard handler process_key, the two-hand   *)
(* calibration calc_mm and the line filter filter_lines.                   *)
(*                                                                         *)
(* Number representation.  The program computes with floats; the model     *)
(* computes with integers:                                                 *)
(*   - an angle is an integer number of milliradians, math.pi being 3142;  *)
(*   - a millimetre value m is held exactly, as the integer m * MmDen      *)
(*     where MmDen = 2*pi * (c_red_angle_end - c_red_angle_start), the     *)
(*     common denominator of theta/(2*pi) and (theta - start)/(end-start); *)
(*   - sin and cos are tabulated at every milliradian, scaled by 10000;    *)
(*   - None is the empty tuple and a present value v is <<v>>.             *)
(***************************************************************************)
EXTENDS Integers, Sequences, FiniteSets, TLC

\* ------------------------------------------------------------------ bounds
\* Capacity of a pointer history: the default `n` of common.append_v.
K == 2
\* Measurement cycles explored.
MaxCycles == 3
\* Key presses explored.
MaxKeys == 2
\* How far the arrow keys may move c_center_offset from its initial value.
MaxOffset == 1

\* --------------------------------------------------------------- constants
Pi == 3142
TwoPi == Pi * 2
c_haimer_ball_diam == 4
c_red_angle_start == 1917
c_red_angle_end == c_red_angle_start + 2512
c_inner_mask_r == 20
MmDen == TwoPi * (c_red_angle_end - c_red_angle_start)

None == << >>
Some(v) == << v >>
Min(a, b) == IF a < b THEN a ELSE b
Max(a, b) == IF a > b THEN a ELSE b
Abs(a) == IF a < 0 THEN -a ELSE a

\* ------------------------------------------------------------ trigonometry
\* 10000 * sin(k milliradians) for k = 0 .. Pi/2, entry k+1.
SinTab ==
  <<
     0, 10, 20, 30, 40, 50, 60, 70, 80, 90, 100, 110, 120, 130, 140, 150,
     160, 170, 180, 190, 200, 210, 220, 230, 240, 250, 260, 270, 280, 290, 300, 310,
     320, 330, 340, 350, 360, 370, 380, 390, 400, 410, 420, 430, 440, 450, 460, 470,
     480, 490, 500, 510, 520, 530, 540, 550, 560, 570, 580, 590, 600, 610, 620, 630,
     639, 649, 659, 669, 679, 689, 699, 709, 719, 729, 739, 749, 759, 769, 779, 789,
     799, 809, 819, 829, 839, 849, 859, 869, 879, 889, 899, 909, 919, 929, 938, 948,
     958, 968, 978, 988, 998, 1008, 1018, 1028, 1038, 1048, 1058, 1068, 1078, 1088, 1098, 1108,
     1118, 1127, 1137, 1147, 1157, 1167, 1177, 1187, 1197, 1207, 1217, 1227, 1237, 1247, 1257, 1266,
     1276, 1286, 1296, 1306, 1316, 1326, 1336, 1346, 1356, 1366, 1375, 1385, 1395, 1405, 1415, 1425,
     1435, 1445, 1455, 1465, 1474, 1484, 1494, 1504, 1514, 1524, 1534, 1544, 1553, 1563, 1573, 1583,
     1593, 1603, 1613, 1623, 1632, 1642, 1652, 1662, 1672, 1682, 1692, 1701, 1711, 1721, 1731, 1741,
     1751, 1761, 1770, 1780, 1790, 1800, 1810, 1820, 1829, 1839, 1849, 1859, 1869, 1879, 1888, 1898,
     1908, 1918, 1928, 1937, 1947, 1957, 1967, 1977, 1986, 1996, 2006, 2016, 2026, 2035, 2045, 2055,
     2065, 2075, 2084, 2094, 2104, 2114, 2123, 2133, 2143, 2153, 2162, 2172, 2182, 2192, 2202, 2211,
     2221, 2231, 2241, 2250, 2260, 2270, 2279, 2289, 2299, 2309, 2318, 2328, 2338, 2348, 2357, 2367,
     2377, 2386, 2396, 2406, 2416, 2425, 2435, 2445, 2454, 2464, 2474, 2483, 2493, 2503, 2512, 2522,
     2532, 2541, 2551, 2561, 2570, 2580, 2590, 2599, 2609, 2619, 2628, 2638, 2648, 2657, 2667, 2677,
     2686, 2696, 2706, 2715, 2725, 2734, 2744, 2754, 2763, 2773, 2782, 2792, 2802, 2811, 2821, 2830,
     2840, 2850, 2859, 2869, 2878, 2888, 2897, 2907, 2917, 2926, 2936, 2945, 2955, 2964, 2974, 2983,
     2993, 3003, 3012, 3022, 3031, 3041, 3050, 3060, 3069, 3079, 3088, 3098, 3107, 3117, 3126, 3136,
     3145, 3155, 3164, 3174, 3183, 3193, 3202, 3212, 3221, 3231, 3240, 3249, 3259, 3268, 3278, 3287,
     3297, 3306, 3316, 3325, 3334, 3344, 3353, 3363, 3372, 3382, 3391, 3400, 3410, 3419, 3429, 3438,
     3447, 3457, 3466, 3475, 3485, 3494, 3504, 3513, 3522, 3532, 3541, 3550, 3560, 3569, 3578, 3588,
     3597, 3606, 3616, 3625, 3634, 3644, 3653, 3662, 3672, 3681, 3690, 3699, 3709, 3718, 3727, 3737,
     3746, 3755, 3764, 3774, 3783, 3792, 3801, 3811, 3820, 3829, 3838, 3848, 3857, 3866, 3875, 3884,
     3894, 3903, 3912, 3921, 3931, 3940, 3949, 3958, 3967, 3976, 3986, 3995, 4004, 4013, 4022, 4031,
     4041, 4050, 4059, 4068, 4077, 4086, 4095, 4104, 4114, 4123, 4132, 4141, 4150, 4159, 4168, 4177,
     4186, 4195, 4205, 4214, 4223, 4232, 4241, 4250, 4259, 4268, 4277, 4286, 4295, 4304, 4313, 4322,
     4331, 4340, 4349, 4358, 4367, 4376, 4385, 4394, 4403, 4412, 4421, 4430, 4439, 4448, 4457, 4466,
     4475, 4484, 4493, 4502, 4510, 4519, 4528, 4537, 4546, 4555, 4564, 4573, 4582, 4591, 4599, 4608,
     4617, 4626, 4635, 4644, 4653, 4662, 4670, 4679, 4688, 4697, 4706, 4715, 4723, 4732, 4741, 4750,
     4759, 4767, 4776, 4785, 4794, 4802, 4811, 4820, 4829, 4838, 4846, 4855, 4864, 4872, 4881, 4890,
     4899, 4907, 4916, 4925, 4933, 4942, 4951, 4960, 4968, 4977, 4986, 4994, 5003, 5012, 5020, 5029,
     5037, 5046, 5055, 5063, 5072, 5081, 5089, 5098, 5106, 5115, 5124, 5132, 5141, 5149, 5158, 5166,
     5175, 5184, 5192, 5201, 5209, 5218, 5226, 5235, 5243, 5252, 5260, 5269, 5277, 5286, 5294, 5303,
     5311, 5320, 5328, 5337, 5345, 5354, 5362, 5370, 5379, 5387, 5396, 5404, 5413, 5421, 5429, 5438,
     5446, 5454, 5463, 5471, 5480, 5488, 5496, 5505, 5513, 5521, 5530, 5538, 5546, 5555, 5563, 5571,
     5580, 5588, 5596, 5604, 5613, 5621, 5629, 5638, 5646, 5654, 5662, 5671, 5679, 5687, 5695, 5703,
     5712, 5720, 5728, 5736, 5744, 5753, 5761, 5769, 5777, 5785, 5793, 5802, 5810, 5818, 5826, 5834,
     5842, 5850, 5858, 5867, 5875, 5883, 5891, 5899, 5907, 5915, 5923, 5931, 5939, 5947, 5955, 5963,
     5971, 5979, 5987, 5995, 6003, 6011, 6019, 6027, 6035, 6043, 6051, 6059, 6067, 6075, 6083, 6091,
     6099, 6107, 6115, 6123, 6130, 6138, 6146, 6154, 6162, 6170, 6178, 6186, 6193, 6201, 6209, 6217,
     6225, 6233, 6240, 6248, 6256, 6264, 6272, 6279, 6287, 6295, 6303, 6311, 6318, 6326, 6334, 6342,
     6349, 6357, 6365, 6372, 6380, 6388, 6395, 6403, 6411, 6419, 6426, 6434, 6441, 6449, 6457, 6464,
     6472, 6480, 6487, 6495, 6502, 6510, 6518, 6525, 6533, 6540, 6548, 6555, 6563, 6571, 6578, 6586,
     6593, 6601, 6608, 6616, 6623, 6631, 6638, 6646, 6653, 6661, 6668, 6675, 6683, 6690, 6698, 6705,
     6713, 6720, 6727, 6735, 6742, 6750, 6757, 6764, 6772, 6779, 6786, 6794, 6801, 6808, 6816, 6823,
     6830, 6838, 6845, 6852, 6859, 6867, 6874, 6881, 6889, 6896, 6903, 6910, 6917, 6925, 6932, 6939,
     6946, 6953, 6961, 6968, 6975, 6982, 6989, 6996, 7004, 7011, 7018, 7025, 7032, 7039, 7046, 7053,
     7060, 7068, 7075, 7082, 7089, 7096, 7103, 7110, 7117, 7124, 7131, 7138, 7145, 7152, 7159, 7166,
     7173, 7180, 7187, 7194, 7201, 7208, 7215, 7221, 7228, 7235, 7242, 7249, 7256, 7263, 7270, 7277,
     7283, 7290, 7297, 7304, 7311, 7318, 7324, 7331, 7338, 7345, 7352, 7358, 7365, 7372, 7379, 7385,
     7392, 7399, 7406, 7412, 7419, 7426, 7432, 7439, 7446, 7452, 7459, 7466, 7472, 7479, 7486, 7492,
     7499, 7505, 7512, 7519, 7525, 7532, 7538, 7545, 7552, 7558, 7565, 7571, 7578, 7584, 7591, 7597,
     7604, 7610, 7617, 7623, 7630, 7636, 7643, 7649, 7655, 7662, 7668, 7675, 7681, 7688, 7694, 7700,
     7707, 7713, 7719, 7726, 7732, 7738, 7745, 7751, 7757, 7764, 7770, 7776, 7783, 7789, 7795, 7801,
     7808, 7814, 7820, 7826, 7833, 7839, 7845, 7851, 7857, 7864, 7870, 7876, 7882, 7888, 7894, 7900,
     7907, 7913, 7919, 7925, 7931, 7937, 7943, 7949, 7955, 7961, 7967, 7973, 7979, 7985, 7992, 7998,
     8004, 8009, 8015, 8021, 8027, 8033, 8039, 8045, 8051, 8057, 8063, 8069, 8075, 8081, 8087, 8093,
     8098, 8104, 8110, 8116, 8122, 8128, 8133, 8139, 8145, 8151, 8157, 8162, 8168, 8174, 8180, 8185,
     8191, 8197, 8203, 8208, 8214, 8220, 8225, 8231, 8237, 8242, 8248, 8254, 8259, 8265, 8271, 8276,
     8282, 8288, 8293, 8299, 8304, 8310, 8315, 8321, 8326, 8332, 8338, 8343, 8349, 8354, 8360, 8365,
     8371, 8376, 8381, 8387, 8392, 8398, 8403, 8409, 8414, 8419, 8425, 8430, 8436, 8441, 8446, 8452,
     8457, 8462, 8468, 8473, 8478, 8484, 8489, 8494, 8499, 8505, 8510, 8515, 8520, 8526, 8531, 8536,
     8541, 8546, 8552, 8557, 8562, 8567, 8572, 8577, 8583, 8588, 8593, 8598, 8603, 8608, 8613, 8618,
     8623, 8628, 8633, 8639, 8644, 8649, 8654, 8659, 8664, 8669, 8674, 8679, 8683, 8688, 8693, 8698,
     8703, 8708, 8713, 8718, 8723, 8728, 8733, 8738, 8742, 8747, 8752, 8757, 8762, 8767, 8771, 8776,
     8781, 8786, 8790, 8795, 8800, 8805, 8809, 8814, 8819, 8824, 8828, 8833, 8838, 8842, 8847, 8852,
     8856, 8861, 8866, 8870, 8875, 8879, 8884, 8889, 8893, 8898, 8902, 8907, 8911, 8916, 8920, 8925,
     8930, 8934, 8938, 8943, 8947, 8952, 8956, 8961, 8965, 8970, 8974, 8978, 8983, 8987, 8992, 8996,
     9000, 9005, 9009, 9013, 9018, 9022, 9026, 9031, 9035, 9039, 9043, 9048, 9052, 9056, 9060, 9065,
     9069, 9073, 9077, 9082, 9086, 9090, 9094, 9098, 9102, 9106, 9111, 9115, 9119, 9123, 9127, 9131,
     9135, 9139, 9143, 9147, 9151, 9155, 9159, 9163, 9167, 9171, 9175, 9179, 9183, 9187, 9191, 9195,
     9199, 9203, 9207, 9211, 9215, 9219, 9222, 9226, 9230, 9234, 9238, 9242, 9245, 9249, 9253, 9257,
     9261, 9264, 9268, 9272, 9276, 9279, 9283, 9287, 9291, 9294, 9298, 9302, 9305, 9309, 9313, 9316,
     9320, 9323, 9327, 9331, 9334, 9338, 9341, 9345, 9349, 9352, 9356, 9359, 9363, 9366, 9370, 9373,
     9377, 9380, 9384, 9387, 9390, 9394, 9397, 9401, 9404, 9408, 9411, 9414, 9418, 9421, 9424, 9428,
     9431, 9434, 9438, 9441, 9444, 9448, 9451, 9454, 9457, 9461, 9464, 9467, 9470, 9473, 9477, 9480,
     9483, 9486, 9489, 9492, 9496, 9499, 9502, 9505, 9508, 9511, 9514, 9517, 9520, 9523, 9527, 9530,
     9533, 9536, 9539, 9542, 9545, 9548, 9551, 9553, 9556, 9559, 9562, 9565, 9568, 9571, 9574, 9577,
     9580, 9583, 9585, 9588, 9591, 9594, 9597, 9600, 9602, 9605, 9608, 9611, 9613, 9616, 9619, 9622,
     9624, 9627, 9630, 9632, 9635, 9638, 9640, 9643, 9646, 9648, 9651, 9654, 9656, 9659, 9661, 9664,
     9667, 9669, 9672, 9674, 9677, 9679, 9682, 9684, 9687, 9689, 9692, 9694, 9697, 9699, 9701, 9704,
     9706, 9709, 9711, 9713, 9716, 9718, 9721, 9723, 9725, 9728, 9730, 9732, 9734, 9737, 9739, 9741,
     9744, 9746, 9748, 9750, 9752, 9755, 9757, 9759, 9761, 9763, 9766, 9768, 9770, 9772, 9774, 9776,
     9778, 9780, 9782, 9785, 9787, 9789, 9791, 9793, 9795, 9797, 9799, 9801, 9803, 9805, 9807, 9809,
     9811, 9812, 9814, 9816, 9818, 9820, 9822, 9824, 9826, 9828, 9829, 9831, 9833, 9835, 9837, 9838,
     9840, 9842, 9844, 9846, 9847, 9849, 9851, 9852, 9854, 9856, 9858, 9859, 9861, 9863, 9864, 9866,
     9867, 9869, 9871, 9872, 9874, 9875, 9877, 9879, 9880, 9882, 9883, 9885, 9886, 9888, 9889, 9891,
     9892, 9894, 9895, 9897, 9898, 9899, 9901, 9902, 9904, 9905, 9906, 9908, 9909, 9910, 9912, 9913,
     9914, 9916, 9917, 9918, 9919, 9921, 9922, 9923, 9924, 9926, 9927, 9928, 9929, 9930, 9932, 9933,
     9934, 9935, 9936, 9937, 9938, 9940, 9941, 9942, 9943, 9944, 9945, 9946, 9947, 9948, 9949, 9950,
     9951, 9952, 9953, 9954, 9955, 9956, 9957, 9958, 9959, 9960, 9960, 9961, 9962, 9963, 9964, 9965,
     9966, 9966, 9967, 9968, 9969, 9970, 9970, 9971, 9972, 9973, 9973, 9974, 9975, 9976, 9976, 9977,
     9978, 9978, 9979, 9980, 9980, 9981, 9981, 9982, 9983, 9983, 9984, 9984, 9985, 9985, 9986, 9986,
     9987, 9988, 9988, 9988, 9989, 9989, 9990, 9990, 9991, 9991, 9992, 9992, 9992, 9993, 9993, 9994,
     9994, 9994, 9995, 9995, 9995, 9996, 9996, 9996, 9996, 9997, 9997, 9997, 9997, 9998, 9998, 9998,
     9998, 9998, 9999, 9999, 9999, 9999, 9999, 9999, 9999, 10000, 10000, 10000, 10000, 10000, 10000, 10000,
     10000, 10000, 10000, 10000
  >>

\* math.sin, math.cos on an angle in milliradians, scaled by 10000.
Sin(t) ==
  LET m == t % TwoPi
  IN  IF m <= Pi \div 2 THEN SinTab[m + 1]
      ELSE IF m <= Pi THEN SinTab[Pi - m + 1]
      ELSE IF m <= Pi + Pi \div 2 THEN -SinTab[m - Pi + 1]
      ELSE -SinTab[TwoPi - m + 1]
Cos(t) == Sin(t + Pi \div 2)

\* The angle in lo..hi at which y*cos - x*sin changes sign (x, y >= 0).
RECURSIVE AtanSearch(_, _, _, _)
AtanSearch(y, x, lo, hi) ==
  IF hi - lo <= 1
  THEN IF Abs(y * Cos(lo) - x * Sin(lo)) <= Abs(y * Cos(hi) - x * Sin(hi)) THEN lo ELSE hi
  ELSE LET mid == (lo + hi) \div 2
       IN  IF y * Cos(mid) - x * Sin(mid) >= 0
           THEN AtanSearch(y, x, mid, hi)
           ELSE AtanSearch(y, x, lo, mid)

\* math.atan2(y, x) in milliradians, in [-Pi, Pi]; atan2(0, 0) = 0.
Atan2(y, x) ==
  IF x = 0 /\ y = 0 THEN 0
  ELSE LET a == AtanSearch(Abs(y), Abs(x), 0, Pi \div 2)
       IN  IF x >= 0 THEN (IF y >= 0 THEN a ELSE -a)
           ELSE IF y >= 0 THEN Pi - a
           ELSE a - Pi

RECURSIVE SumSin(_)
SumSin(lst) == IF lst = << >> THEN 0 ELSE Sin(Head(lst)) + SumSin(Tail(lst))
RECURSIVE SumCos(_)
SumCos(lst) == IF lst = << >> THEN 0 ELSE Cos(Head(lst)) + SumCos(Tail(lst))

\* Variant of mean_angles with a slip: the arguments of atan2 are exchanged.
mean_angles_swapped(lst) == Atan2(SumCos(lst), SumSin(lst))

\* mean_angles: atan2(mean(sin), mean(cos)).  The two means share the
\* divisor len(lst) > 0, which atan2 ignores; the sums keep the precision.
mean_angles(lst) == Atan2(SumSin(lst), SumCos(lst))

\* atan2(sin(dt), cos(dt)): dt brought into [-pi, pi], for an angle dt given
\* in units of 1/scale milliradian.  At odd multiples of pi the float
\* sin(dt) carries the sign of dt, and so does the result.
wrap_angle(dt, scale) ==
  LET full == TwoPi * scale
      half == Pi * scale
      m == dt % full
  IN  IF m < half THEN m
      ELSE IF m > half THEN m - full
      ELSE IF dt > 0 THEN half ELSE -half

difference_of_angles(theta1, theta2) == wrap_angle(theta1 - theta2, 1)

\* line_angle(pt1, pt2): atan2(dy, dx) + pi/2.
line_angle(pt1, pt2) == Atan2(pt2[2] - pt1[2], pt2[1] - pt1[1]) + Pi \div 2

\* ------------------------------------------------------------------ state
VARIABLES
  theta_b_l,        \* get_measurement.theta_b_l: black pointer history
  theta_r_l,        \* get_measurement.theta_r_l: red pointer history
  pause_updates,    \* get_measurement.pause_updates
  save,             \* get_measurement.save
  record,           \* get_measurement.record
  record_ind,       \* get_measurement.record_ind
  debug_view,       \* get_measurement.debug_view
  standalone,       \* get_measurement.standalone
  tare_lst,         \* calc_mm.tare_lst
  tare_on,          \* calc_mm.tare_on
  c_center_offset,  \* module global c_center_offset
  mm_final,         \* the mm_final of the latest get_measurement return
  in_b,             \* theta of black_arrow in the latest cycle (None or <<angle>>)
  in_r,             \* theta of red_arrow in the latest cycle
  z_dropped,        \* length of tare_lst when 'z' was last pressed, None before
  ncycles,          \* number of get_measurement calls so far
  nkeys,            \* number of process_key calls so far
  log_b,            \* every valid black sample so far, in arrival order
  log_r,            \* every valid red sample so far, in arrival order
  tw_theta_b_l,     \* twin run (same frames and keys, 'z' never pressed)
  tw_theta_r_l,
  tw_tare_lst,
  tw_tare_on,
  tw_mm_final,
  c_arg,            \* calc_mm called on its own: the arguments
  c_out,            \* ... and what it returned (None before the call)
  f_arg,            \* filter_lines called on its own: lines and image_center
  f_out,            \* ... and what it returned (None before the call)
  img,              \* find_skeleton: the image passed in (pixel -> 0..255)
  thresh,           \* find_skeleton: foreground pixels of the working image
  skeleton,         \* find_skeleton: foreground pixels of the skeleton
  iters,            \* find_skeleton: iterations counted
  thresh_buf,       \* find_skeleton: which of the two swapped arrays is thresh
  sk_pc,            \* find_skeleton: "idle", "call", "loop" or "done"
  m_arg,            \* mean_angles called on its own: the list
  m_out,            \* ... and what it returned (None before the call)
  zc,               \* z_camera: its globals and the statics of its functions
  zc_rct,           \* z_camera: number of points of the latest rct, None before
  zc_pc,            \* z_camera main: "idle", "measure", "wait" or "crashed"
  zc_button         \* z_camera: the left mouse button is held down

vars ==
  << theta_b_l, theta_r_l, pause_updates, save, record, record_ind, debug_view,
     standalone, tare_lst, tare_on, c_center_offset, mm_final, in_b, in_r,
     z_dropped, ncycles, nkeys, log_b, log_r, tw_theta_b_l, tw_theta_r_l, tw_tare_lst,
     tw_tare_on, tw_mm_final, c_arg, c_out, f_arg, f_out,
     img, thresh, skeleton, iters, thresh_buf, sk_pc, m_arg, m_out,
     zc, zc_rct, zc_pc, zc_button >>

\* The state of z_camera.py, which haimer_camera.py never touches.
zcVars == << zc, zc_rct, zc_pc, zc_button >>

\* ------------------------------------------------------------ common.py
\* common.append_v(lst, v, n): a None is not stored; a value is appended and
\* the oldest entry dropped once the list is longer than n.
append_v(lst, v, n) ==
  IF v = None THEN lst
  ELSE LET a == Append(lst, v[1])
       IN  IF Len(a) > n THEN Tail(a) ELSE a

\* ------------------------------------------------------------- calc_mm
\* Variant of tare_push with a slip: a capacity one too large.
tare_push_full(theta_b, theta_r, t_on, t_lst) ==
  IF t_on THEN append_v(t_lst, Some(<<theta_b, theta_r>>), 201) ELSE t_lst

\* Variant of tare_push with a slip: the pair is pushed whether tare is on or
\* not.
tare_push_always(theta_b, theta_r, t_on, t_lst) ==
  append_v(t_lst, Some(<<theta_b, theta_r>>), 200)

\* calc_mm, tare part: if calc_mm.tare_on, append_v(tare_lst, (theta_b, theta_r), 200).
\* (The print of the running circular means changes no state.)
tare_push(theta_b, theta_r, t_on, t_lst) ==
  IF t_on THEN append_v(t_lst, Some(<<theta_b, theta_r>>), 200) ELSE t_lst

\* Variant of norm_theta with a slip: the clamp is missing.
norm_theta_noclamp(theta) ==
  IF theta < 0 THEN theta + Pi * 2 ELSE theta

\* calc_mm, normalisation: a negative theta gets 2 pi added, then the value is
\* clamped to [0, 2 pi].
norm_theta(theta) ==
  LET t1 == IF theta < 0 THEN theta + Pi * 2 ELSE theta
  IN  Max(0, Min(Pi * 2, t1))

\* mm_b = theta_b / (2 pi) * 1., as a multiple of 1/MmDen mm.
mm_of_black(theta_b) == theta_b * (c_red_angle_end - c_red_angle_start)

\* Variant of mm_of_red with a slip: the ball diameter is missing.
mm_of_red_unscaled(theta_r) ==
  (theta_r - c_red_angle_start) * TwoPi

\* mm_r = (theta_r - start) / (end - start) * ball_diam, as a multiple of
\* 1/MmDen mm.
mm_of_red(theta_r) ==
  (theta_r - c_red_angle_start) * TwoPi * c_haimer_ball_diam

\* math.modf(x)[0] of a millimetre value: the fraction, with the sign of x.
modf_frac(mm) == IF mm >= 0 THEN mm % MmDen ELSE -((-mm) % MmDen)

\* Variant of mm_offset_of with a slip: the difference is not brought into
\* [-pi, pi].
mm_offset_nowrap(theta_b, mm_r_d) ==
  theta_b * (c_red_angle_end - c_red_angle_start) - mm_r_d

\* mm_offset = difference_of_angles(theta_b, mm_r_d * 2 pi) / (2 pi).  Both
\* angles are taken in units of 1/span mrad, span = end - start, where
\* mm_r_d * 2 pi is the integer mm_r_d (mm_r_d / MmDen * TwoPi mrad =
\* mm_r_d / span mrad) and theta_b is theta_b * span; a difference theta_d in
\* that unit is theta_d / MmDen of a turn.
mm_offset_of(theta_b, mm_r_d) ==
  wrap_angle(theta_b * (c_red_angle_end - c_red_angle_start) - mm_r_d,
             c_red_angle_end - c_red_angle_start)

\* Variant of calc_mm with a slip: the first tare pair is used as a zero offset.
calc_mm_tared(theta_b, theta_r, t_on, t_lst) ==
  LET lst2 == tare_push(theta_b, theta_r, t_on, t_lst)
      b2 == norm_theta(theta_b)
      r2 == norm_theta(theta_r)
      mm_b == mm_of_black(b2)
      mm_r == mm_of_red(r2)
      mm_blended == mm_r + mm_offset_of(b2, modf_frac(mm_r))
      zero == IF lst2 = << >> THEN 0 ELSE mm_of_black(norm_theta(lst2[1][1]))
      mm_fin == mm_blended - (c_haimer_ball_diam * MmDen) \div 2 - zero
  IN  [mm_final |-> mm_fin, mm_b |-> mm_b, mm_r |-> mm_r, tare_lst |-> lst2,
       theta_b |-> b2, theta_r |-> r2]

\* Variant of calc_mm with a slip: the fraction of mm_r is replaced by mm_b
\* and its integer part kept.
calc_mm_keep_int(theta_b, theta_r, t_on, t_lst) ==
  LET lst2 == tare_push(theta_b, theta_r, t_on, t_lst)
      b2 == norm_theta(theta_b)
      r2 == norm_theta(theta_r)
      mm_b == mm_of_black(b2)
      mm_r == mm_of_red(r2)
      mm_blended == (mm_r - modf_frac(mm_r)) + mm_b
      mm_fin == mm_blended - (c_haimer_ball_diam * MmDen) \div 2
  IN  [mm_final |-> mm_fin, mm_b |-> mm_b, mm_r |-> mm_r, tare_lst |-> lst2,
       theta_b |-> b2, theta_r |-> r2]

\* calc_mm(theta_b, theta_r) with the statics calc_mm.tare_on, calc_mm.tare_lst
\* passed in and the new tare_lst passed out.  The record also carries the
\* normalised angles the millimetre mapping used.
calc_mm(theta_b, theta_r, t_on, t_lst) ==
  LET lst2 == tare_push(theta_b, theta_r, t_on, t_lst)
      b2 == norm_theta(theta_b)
      r2 == norm_theta(theta_r)
      mm_b == mm_of_black(b2)
      mm_r == mm_of_red(r2)
      mm_r_d == modf_frac(mm_r)
      mm_offset == mm_offset_of(b2, mm_r_d)
      mm_blended == mm_r + mm_offset
      mm_fin == mm_blended - (c_haimer_ball_diam * MmDen) \div 2
  IN  [mm_final |-> mm_fin, mm_b |-> mm_b, mm_r |-> mm_r, tare_lst |-> lst2,
       theta_b |-> b2, theta_r |-> r2]

\* ------------------------------------------------------------- inputs
\* What black_arrow / red_arrow return as theta for a frame: None when the
\* pointer yields no sample, else an angle in [-Pi, Pi] (a mean_angles value).
Frames ==
  { <<Some(500), Some(2500)>>, <<Some(-2000), None>>,
    <<None, Some(-1000)>>, <<None, None>> }
\* Keys: p r s d z, the four arrows, Escape, q, an unbound key ('x'), and 255
\* (cv2.waitKey(5) & 0xff when no key is down).
Keys == {112, 114, 115, 100, 122, 81, 82, 83, 84, 27, 255}

\* ------------------------------------------------------------- Init
Init ==
  /\ theta_b_l = << >>
  /\ theta_r_l = << >>
  /\ pause_updates = FALSE
  /\ save = FALSE
  /\ record = FALSE
  /\ record_ind = 0
  /\ debug_view = FALSE
  /\ standalone = FALSE
  /\ tare_lst = << >>
  /\ tare_on = FALSE
  /\ c_center_offset = <<18, -6>>
  /\ mm_final = None
  /\ in_b = None
  /\ in_r = None
  /\ z_dropped = None
  /\ ncycles = 0
  /\ nkeys = 0
  /\ log_b = << >>
  /\ log_r = << >>
  /\ tw_theta_b_l = << >>
  /\ tw_theta_r_l = << >>
  /\ tw_tare_lst = << >>
  /\ tw_tare_on = FALSE
  /\ tw_mm_final = None
  /\ c_arg = None
  /\ c_out = None
  /\ f_arg = None
  /\ f_out = None
  /\ img = None
  /\ thresh = {}
  /\ skeleton = {}
  /\ iters = 0
  /\ thresh_buf = 0
  /\ sk_pc = "idle"
  /\ m_arg = None
  /\ m_out = None
  /\ zc = None
  /\ zc_rct = None
  /\ zc_pc = "idle"
  /\ zc_button = FALSE

\* ------------------------------------------------------ get_measurement
\* Variants of measure with one plausible slip each, used to show that the
\* properties below depend on it: either history instead of both; a
\* capacity one too large; a None clearing the history; this frame's
\* samples tested instead of the histories.
measure_either(b_l, r_l, t_on, t_lst, theta_b, theta_r) ==
  LET b2 == append_v(b_l, theta_b, K)
      r2 == append_v(r_l, theta_r, K)
  IN  IF b2 # << >> \/ r2 # << >>
      THEN LET m == calc_mm(mean_angles(b2), mean_angles(r2), t_on, t_lst)
           IN  [theta_b_l |-> b2, theta_r_l |-> r2, tare_lst |-> m.tare_lst,
                mm_final |-> Some(m.mm_final)]
      ELSE [theta_b_l |-> b2, theta_r_l |-> r2, tare_lst |-> t_lst,
            mm_final |-> None]

measure_cap(b_l, r_l, t_on, t_lst, theta_b, theta_r) ==
  LET b2 == append_v(b_l, theta_b, K + 1)
      r2 == append_v(r_l, theta_r, K + 1)
  IN  IF b2 # << >> /\ r2 # << >>
      THEN LET m == calc_mm(mean_angles(b2), mean_angles(r2), t_on, t_lst)
           IN  [theta_b_l |-> b2, theta_r_l |-> r2, tare_lst |-> m.tare_lst,
                mm_final |-> Some(m.mm_final)]
      ELSE [theta_b_l |-> b2, theta_r_l |-> r2, tare_lst |-> t_lst,
            mm_final |-> None]

measure_reset(b_l, r_l, t_on, t_lst, theta_b, theta_r) ==
  LET b2 == IF theta_b = None THEN << >> ELSE append_v(b_l, theta_b, K)
      r2 == IF theta_r = None THEN << >> ELSE append_v(r_l, theta_r, K)
  IN  IF b2 # << >> /\ r2 # << >>
      THEN LET m == calc_mm(mean_angles(b2), mean_angles(r2), t_on, t_lst)
           IN  [theta_b_l |-> b2, theta_r_l |-> r2, tare_lst |-> m.tare_lst,
                mm_final |-> Some(m.mm_final)]
      ELSE [theta_b_l |-> b2, theta_r_l |-> r2, tare_lst |-> t_lst,
            mm_final |-> None]

measure_fresh(b_l, r_l, t_on, t_lst, theta_b, theta_r) ==
  LET b2 == append_v(b_l, theta_b, K)
      r2 == append_v(r_l, theta_r, K)
  IN  IF theta_b # None /\ theta_r # None
      THEN LET m == calc_mm(mean_angles(b2), mean_angles(r2), t_on, t_lst)
           IN  [theta_b_l |-> b2, theta_r_l |-> r2, tare_lst |-> m.tare_lst,
                mm_final |-> Some(m.mm_final)]
      ELSE [theta_b_l |-> b2, theta_r_l |-> r2, tare_lst |-> t_lst,
            mm_final |-> None]

\* Variant of measure with a slip: with the debug view on and tare on, the
\* reading is withheld.
measure_flagged(b_l, r_l, t_on, t_lst, theta_b, theta_r) ==
  LET b2 == append_v(b_l, theta_b, K)
      r2 == append_v(r_l, theta_r, K)
  IN  IF b2 # << >> /\ r2 # << >> /\ ~(debug_view /\ t_on)
      THEN LET m == calc_mm(mean_angles(b2), mean_angles(r2), t_on, t_lst)
           IN  [theta_b_l |-> b2, theta_r_l |-> r2, tare_lst |-> m.tare_lst,
                mm_final |-> Some(m.mm_final)]
      ELSE [theta_b_l |-> b2, theta_r_l |-> r2, tare_lst |-> t_lst,
            mm_final |-> None]

\* The measurement part of one get_measurement call, on the statics
\* (b_l, r_l, t_on, t_lst) and this frame's thetas: the new histories, the new
\* tare list and the mm_final returned.
measure(b_l, r_l, t_on, t_lst, theta_b, theta_r) ==
  LET b2 == append_v(b_l, theta_b, K)
      r2 == append_v(r_l, theta_r, K)
  IN  IF b2 # << >> /\ r2 # << >>
      THEN LET m == calc_mm(mean_angles(b2), mean_angles(r2), t_on, t_lst)
           IN  [theta_b_l |-> b2, theta_r_l |-> r2, tare_lst |-> m.tare_lst,
                mm_final |-> Some(m.mm_final)]
      ELSE [theta_b_l |-> b2, theta_r_l |-> r2, tare_lst |-> t_lst,
            mm_final |-> None]

\* get_measurement(video_capture), the frame standing for what black_arrow
\* and red_arrow make of it.
get_measurement(theta_b, theta_r) ==
  /\ ncycles < MaxCycles
  /\ \E r \in {measure(theta_b_l, theta_r_l, tare_on, tare_lst, theta_b, theta_r)},
        tw \in {measure(tw_theta_b_l, tw_theta_r_l, tw_tare_on, tw_tare_lst, theta_b, theta_r)} :
       /\ theta_b_l' = r.theta_b_l
       /\ theta_r_l' = r.theta_r_l
       /\ tare_lst' = r.tare_lst
       /\ mm_final' = r.mm_final
       /\ tw_theta_b_l' = tw.theta_b_l
       /\ tw_theta_r_l' = tw.theta_r_l
       /\ tw_tare_lst' = tw.tare_lst
       /\ tw_mm_final' = tw.mm_final
  \* if not standalone: record = False, save = False; when standalone, a set
  \* save is cleared after the images are written.
  /\ record' = IF ~standalone THEN FALSE ELSE record
  /\ save' = FALSE
  /\ record_ind' = IF standalone /\ record THEN record_ind + 1 ELSE record_ind
  /\ in_b' = theta_b
  /\ in_r' = theta_r
  /\ ncycles' = ncycles + 1
  /\ log_b' = IF theta_b = None THEN log_b ELSE Append(log_b, theta_b[1])
  /\ log_r' = IF theta_r = None THEN log_r ELSE Append(log_r, theta_r[1])
  /\ UNCHANGED << pause_updates, debug_view, standalone, tare_on, c_center_offset,
                  z_dropped, nkeys, tw_tare_on, c_arg, c_out, f_arg, f_out >>
  /\ UNCHANGED << img, thresh, skeleton, iters, thresh_buf, sk_pc, m_arg, m_out >>
  /\ UNCHANGED zcVars

\* ---------------------------------------------------------- process_key
InOffsetRange(off) ==
  /\ Abs(off[1] - 18) <= MaxOffset
  /\ Abs(off[2] + 6) <= MaxOffset

\* Variant of tare_toggle with a slip: switching off keeps the list.
tare_toggle_keep ==
  IF tare_on
  THEN tare_lst' = tare_lst /\ tare_on' = FALSE
  ELSE tare_lst' = << >> /\ tare_on' = TRUE

\* process_key, key 'z': both branches empty calc_mm.tare_lst.
tare_toggle ==
  IF tare_on
  THEN tare_lst' = << >> /\ tare_on' = FALSE
  ELSE tare_lst' = << >> /\ tare_on' = TRUE

process_key(key) ==
  /\ nkeys < MaxKeys
  /\ nkeys' = nkeys + 1
  /\ z_dropped' = IF key = 122 THEN Some(Len(tare_lst)) ELSE z_dropped
  /\ IF key = 112      \* ord('p')
     THEN /\ pause_updates' = ~pause_updates
          /\ UNCHANGED << record, save, debug_view, tare_lst, tare_on, c_center_offset >>
     ELSE IF key = 114      \* ord('r')
     THEN /\ record' = ~record
          /\ UNCHANGED << pause_updates, save, debug_view, tare_lst, tare_on, c_center_offset >>
     ELSE IF key = 115      \* ord('s')
     THEN /\ save' = TRUE
          /\ UNCHANGED << pause_updates, record, debug_view, tare_lst, tare_on, c_center_offset >>
     ELSE IF key = 100      \* ord('d')
     THEN /\ debug_view' = ~debug_view
          /\ UNCHANGED << pause_updates, record, save, tare_lst, tare_on, c_center_offset >>
     ELSE IF key = 122      \* ord('z')
     THEN /\ tare_toggle
          /\ UNCHANGED << pause_updates, record, save, debug_view, c_center_offset >>
     ELSE IF 81 <= key /\ key <= 84
     THEN /\ c_center_offset' =
               IF key = 81 THEN <<c_center_offset[1] - 1, c_center_offset[2]>>        \* KEY_LEFT
               ELSE IF key = 82 THEN <<c_center_offset[1], c_center_offset[2] - 1>>   \* KEY_UP
               ELSE IF key = 83 THEN <<c_center_offset[1] + 1, c_center_offset[2]>>   \* KEY_RIGHT
               ELSE <<c_center_offset[1], c_center_offset[2] + 1>>                    \* KEY_DOWN
          /\ InOffsetRange(c_center_offset')
          /\ UNCHANGED << pause_updates, record, save, debug_view, tare_lst, tare_on >>
     ELSE IF key \in {27, 113}      \* Escape or q: raise common.QuitException
     THEN UNCHANGED << pause_updates, record, save, debug_view, tare_lst, tare_on, c_center_offset >>
     ELSE \* key >= 0: return False
          UNCHANGED << pause_updates, record, save, debug_view, tare_lst, tare_on, c_center_offset >>
  /\ UNCHANGED << theta_b_l, theta_r_l, record_ind, standalone, mm_final, in_b, in_r,
                  ncycles, log_b, log_r, tw_theta_b_l, tw_theta_r_l, tw_tare_lst,
                  tw_tare_on, tw_mm_final, c_arg, c_out, f_arg, f_out >>
  /\ UNCHANGED << img, thresh, skeleton, iters, thresh_buf, sk_pc, m_arg, m_out >>
  /\ UNCHANGED zcVars

\* main(): get_measurement.standalone = True, before the loop starts.
main ==
  /\ ~standalone
  /\ ncycles = 0
  /\ nkeys = 0
  /\ standalone' = TRUE
  /\ UNCHANGED << theta_b_l, theta_r_l, pause_updates, save, record, record_ind,
                  debug_view, tare_lst, tare_on, c_center_offset, mm_final,
                  in_b, in_r, z_dropped, ncycles, nkeys, log_b, log_r, tw_theta_b_l,
                  tw_theta_r_l, tw_tare_lst, tw_tare_on, tw_mm_final,
                  c_arg, c_out, f_arg, f_out >>
  /\ UNCHANGED << img, thresh, skeleton, iters, thresh_buf, sk_pc, m_arg, m_out >>
  /\ UNCHANGED zcVars

Cycle == \E f \in Frames : get_measurement(f[1], f[2])
Key == \E key \in Keys : process_key(key)

Next == main \/ Cycle \/ Key

Spec == Init /\ [][Next]_vars

\* ======================================================================
\* Properties of the measurement cycle (specification Spec)
\* ======================================================================
\* The last n entries of s, in order.
LastN(s, n) == SubSeq(s, Max(1, Len(s) - n + 1), Len(s))

\* C1: get_measurement returns mm_final = None exactly in the cycles that
\* end with at least one of the two pointer histories empty; in every other
\* cycle it returns the mm_final that calc_mm computes from the circular
\* means of the two histories.
C1_WithheldIffHistoryEmpty ==
  /\ (mm_final = None) <=> (theta_b_l = << >> \/ theta_r_l = << >>)
  /\ mm_final # None =>
       mm_final[1] = calc_mm(mean_angles(theta_b_l), mean_angles(theta_r_l),
                             FALSE, << >>).mm_final

\* A cycle has run, one history holds a sample, the other is still empty and
\* the measurement was withheld.
C1_Witness ==
  /\ ncycles > 0
  /\ theta_b_l # << >>
  /\ theta_r_l = << >>
  /\ mm_final = None

\* C2: each pointer history holds exactly the most recent min(n, K) valid
\* samples pushed to it, in arrival order (n the number pushed so far); so it
\* is never longer than K, and the (K+1)-th push drops exactly the oldest.
C2_HistoryIsLastK ==
  /\ theta_b_l = LastN(log_b, K)
  /\ theta_r_l = LastN(log_r, K)
  /\ Len(theta_b_l) = Min(Len(log_b), K)
  /\ Len(theta_r_l) = Min(Len(log_r), K)

\* K+1 samples, not all equal, have been pushed to the black history: the
\* oldest is gone and the K newest remain.
C2_Witness ==
  /\ Len(log_b) = K + 1
  /\ log_b[1] # log_b[2]
  /\ theta_b_l = Tail(log_b)

\* C3: a cycle in which a pointer yields no sample (theta is None) leaves that
\* pointer's history as it was, while the other pointer's history still takes
\* its own sample of that cycle.
C3_NoSampleKeepsHistory ==
  [][ncycles' = ncycles + 1 =>
       /\ in_b' = None => theta_b_l' = theta_b_l
       /\ in_r' = None => theta_r_l' = theta_r_l
       /\ in_b' # None => theta_b_l' = LastN(Append(theta_b_l, in_b'[1]), K)
       /\ in_r' # None => theta_r_l' = LastN(Append(theta_r_l, in_r'[1]), K)]_vars

\* The latest cycle had no black sample but a red one: the black history
\* still holds its earlier sample and the red history ends with the new one.
C3_Witness ==
  /\ ncycles >= 2
  /\ in_b = None
  /\ in_r # None
  /\ theta_b_l # << >>
  /\ Len(theta_r_l) >= 2
  /\ theta_r_l[Len(theta_r_l)] = in_r[1]

\* C4: a history that has received a sample is non-empty ever after, and once
\* get_measurement has returned a non-None mm_final it does so in every later
\* cycle, whatever frames and keys follow.
C4_OcclusionTolerance ==
  [][/\ theta_b_l # << >> => theta_b_l' # << >>
     /\ theta_r_l # << >> => theta_r_l' # << >>
     /\ mm_final # None => mm_final' # None]_vars

\* A measurement is returned in a cycle in which neither pointer gave a
\* sample, after a key was pressed.
C4_Witness ==
  /\ mm_final # None
  /\ in_b = None
  /\ in_r = None
  /\ nkeys > 0

\* C7: tare does not influence the reading.  The run and its twin, which see
\* the same frames and differ only in 'z' key presses, return the same
\* mm_final in every cycle; and on the current smoothed angles calc_mm returns
\* the same (mm_final, mm_b, mm_r) for every tare flag and tare list.
TareStates ==
  {<<FALSE, << >> >>, <<TRUE, << >> >>, <<tare_on, tare_lst>>,
   <<TRUE, << <<1000, -1000>>, <<-3000, 3000>> >> >>,
   <<FALSE, << <<1000, -1000>> >> >>}

C7_TareDoesNotAffectReading ==
  /\ mm_final = tw_mm_final
  /\ (theta_b_l # << >> /\ theta_r_l # << >>) =>
       \A t \in TareStates :
         LET m == calc_mm(mean_angles(theta_b_l), mean_angles(theta_r_l), t[1], t[2])
             m0 == calc_mm(mean_angles(theta_b_l), mean_angles(theta_r_l), FALSE, << >>)
         IN  <<m.mm_final, m.mm_b, m.mm_r>> = <<m0.mm_final, m0.mm_b, m0.mm_r>>

\* Tare is on with pairs accumulated, the twin never switched it on, and both
\* returned a measurement.
C7_Witness ==
  /\ tare_on
  /\ Len(tare_lst) >= 2
  /\ ~tw_tare_on
  /\ tw_tare_lst = << >>
  /\ mm_final # None
  /\ tw_mm_final # None

\* C8: every 'z' key press flips calc_mm.tare_on and leaves calc_mm.tare_lst
\* empty, whether tare is switched on or off and whatever the list held; no
\* other step changes tare_on.
C8_ToggleClearsTare ==
  [][/\ process_key(122) => (tare_on' = ~tare_on /\ tare_lst' = << >>)
     /\ tare_on' # tare_on => (tare_lst' = << >> /\ z_dropped' = Some(Len(tare_lst)))]_vars

\* Tare was switched off while the accumulator held pairs, and it is empty now.
C8_Witness ==
  /\ z_dropped # None
  /\ z_dropped[1] > 0
  /\ ~tare_on
  /\ tare_lst = << >>

\* ======================================================================
\* calc_mm called on its own (specification SpecCalc)
\* ======================================================================
\* Spacing of the argument grid, in milliradians.
GridStep == 400
\* Arguments: a grid over [0, 2 pi), the angles of the two calibration
\* scenarios, the ends of the range mean_angles returns, and values outside.
CalcAngles ==
  {k * GridStep : k \in 0 .. (TwoPi - 1) \div GridStep}
    \cup {0, Pi \div 2, Pi, TwoPi - 1, c_red_angle_start,
          c_red_angle_start + (c_red_angle_end - c_red_angle_start) \div 2}
    \cup {-1, -Pi, -TwoPi, -TwoPi - 1, TwoPi, TwoPi + 1, 3 * Pi}

\* The n pairs calc_mm has accumulated after n calls with tare on, call i
\* having the arguments (i, -i).
TareStream(n) == [i \in 1 .. n |-> <<i, -i>>]

\* States (tare_on, tare_lst) in which a call can find the statics: tare off
\* (the list is then empty), or on with 0, 1, 199 or 200 pairs accumulated.
TarePre ==
  {<<FALSE, << >> >>} \cup {<<TRUE, TareStream(n)>> : n \in {0, 1, 199, 200}}

InitCalc ==
  /\ theta_b_l = << >>
  /\ theta_r_l = << >>
  /\ pause_updates = FALSE
  /\ save = FALSE
  /\ record = FALSE
  /\ record_ind = 0
  /\ debug_view = FALSE
  /\ standalone = FALSE
  /\ \E t \in TarePre : tare_on = t[1] /\ tare_lst = t[2]
  /\ c_center_offset = <<18, -6>>
  /\ mm_final = None
  /\ in_b = None
  /\ in_r = None
  /\ z_dropped = None
  /\ ncycles = 0
  /\ nkeys = 0
  /\ log_b = << >>
  /\ log_r = << >>
  /\ tw_theta_b_l = << >>
  /\ tw_theta_r_l = << >>
  /\ tw_tare_lst = << >>
  /\ tw_tare_on = FALSE
  /\ tw_mm_final = None
  /\ c_arg \in {Some(<<b, r>>) : b \in CalcAngles, r \in CalcAngles}
  /\ c_out = None
  /\ f_arg = None
  /\ f_out = None
  /\ img = None
  /\ thresh = {}
  /\ skeleton = {}
  /\ iters = 0
  /\ thresh_buf = 0
  /\ sk_pc = "idle"
  /\ m_arg = None
  /\ m_out = None
  /\ zc = None
  /\ zc_rct = None
  /\ zc_pc = "idle"
  /\ zc_button = FALSE

\* One call calc_mm(theta_b, theta_r).
calc_call ==
  /\ c_arg # None
  /\ c_out = None
  /\ \E m \in {calc_mm(c_arg[1][1], c_arg[1][2], tare_on, tare_lst)} :
       /\ c_out' = Some(m)
       /\ tare_lst' = m.tare_lst
  /\ UNCHANGED << theta_b_l, theta_r_l, pause_updates, save, record, record_ind,
                  debug_view, standalone, tare_on, c_center_offset, mm_final,
                  in_b, in_r, z_dropped, ncycles, nkeys, log_b, log_r, tw_theta_b_l,
                  tw_theta_r_l, tw_tare_lst, tw_tare_on, tw_mm_final,
                  c_arg, f_arg, f_out >>
  /\ UNCHANGED << img, thresh, skeleton, iters, thresh_buf, sk_pc, m_arg, m_out >>
  /\ UNCHANGED zcVars

NextCalc == calc_call

SpecCalc == InitCalc /\ [][NextCalc]_vars

\* The arguments and the result of the call, once it has been made.
CalcDone == c_out # None
ArgB == c_arg[1][1]
ArgR == c_arg[1][2]
Out == c_out[1]

\* C5: for every (theta_black, theta_red) in [0, 2 pi) calc_mm returns
\* mm_b = theta_black / (2 pi), mm_r = (theta_red - start) / (end - start) *
\* ball_diameter and mm_final = mm_r + d / (2 pi) - ball_diameter / 2, where d
\* is the circular difference of theta_black and frac(mm_r) * 2 pi: the
\* angle congruent to their difference modulo 2 pi that lies in [-pi, pi].
\* At (0, start) mm_final is -2.0; at (pi/2, start + (end - start)/2) mm_r is
\* 2.0 and mm_final is 0.25.
C5_SixStepCalibration ==
  (CalcDone /\ 0 <= ArgB /\ ArgB < TwoPi /\ 0 <= ArgR /\ ArgR < TwoPi) =>
    LET span == c_red_angle_end - c_red_angle_start
        off == Out.mm_final + 2 * MmDen - Out.mm_r
    IN  /\ Out.mm_b = ArgB * (MmDen \div TwoPi)
        /\ Out.mm_r = (ArgR - c_red_angle_start) * 4 * (MmDen \div span)
        /\ (off - (ArgB * span - (Out.mm_r % MmDen))) % MmDen = 0
        /\ 2 * Abs(off) <= MmDen
        /\ (ArgB = 0 /\ ArgR = c_red_angle_start) => Out.mm_final = -2 * MmDen
        /\ (ArgB = Pi \div 2 /\ ArgR = c_red_angle_start + span \div 2) =>
             (Out.mm_r = 2 * MmDen /\ 4 * Out.mm_final = MmDen)

\* Scenario 2 has been computed: mm_final = 0.25.
C5_Witness ==
  /\ CalcDone
  /\ ArgB = Pi \div 2
  /\ ArgR = c_red_angle_start + (c_red_angle_end - c_red_angle_start) \div 2
  /\ 4 * Out.mm_final = MmDen

\* C6 as claimed: for every theta_b and theta_r the angles used in the
\* millimetre mapping lie in the half-open [0, 2 pi), so mm_b lies in [0, 1).
C6_HalfOpenRange ==
  CalcDone =>
    /\ 0 <= Out.theta_b /\ Out.theta_b < TwoPi
    /\ 0 <= Out.theta_r /\ Out.theta_r < TwoPi
    /\ 0 <= Out.mm_b /\ Out.mm_b < MmDen

\* C6, amended: for every theta_b and theta_r the angles used in the
\* millimetre mapping lie in the closed interval [0, 2 pi], so mm_b lies in
\* [0, 1]; both upper ends are reached.
C6_ClosedRange ==
  CalcDone =>
    /\ 0 <= Out.theta_b /\ Out.theta_b <= TwoPi
    /\ 0 <= Out.theta_r /\ Out.theta_r <= TwoPi
    /\ 0 <= Out.mm_b /\ Out.mm_b <= MmDen

\* An argument beyond 2 pi was clamped to 2 pi itself: mm_b = 1.
C6_Witness ==
  /\ CalcDone
  /\ ArgB > TwoPi
  /\ Out.theta_b = TwoPi
  /\ Out.mm_b = MmDen

\* C9: with tare on, a calc_mm call appends its (theta_b, theta_r) to
\* tare_lst and, beyond 200 pairs, drops the oldest; with tare off it leaves
\* tare_lst unchanged; tare_lst never holds more than 200 pairs.
C9_TareAccumulator ==
  /\ [](Len(tare_lst) <= 200)
  /\ [][c_out' # c_out =>
          IF tare_on
          THEN /\ tare_lst' = LastN(Append(tare_lst, <<ArgB, ArgR>>), 200)
               /\ Len(tare_lst') = Min(Len(tare_lst) + 1, 200)
          ELSE tare_lst' = tare_lst]_vars

\* A call with tare on found 200 pairs: the oldest is gone, the pair of this
\* call is the newest, and 200 pairs remain.
C9_Witness ==
  /\ CalcDone
  /\ tare_on
  /\ Len(tare_lst) = 200
  /\ tare_lst[200] = <<ArgB, ArgR>>
  /\ tare_lst[1] = TareStream(2)[2]
  /\ tare_lst[199] = TareStream(200)[200]

\* ---------------------------------------------------------- filter_lines
\* A line is <<x1, y1, x2, y2>>, the lst[0] of one cv2.HoughLinesP row; an
\* entry of the filtered list is <<inc, line>>.
SqLen(l) == (l[4] - l[2]) * (l[4] - l[2]) + (l[3] - l[1]) * (l[3] - l[1])

\* Variant of seg_near with a slip: d <= cutoff.
seg_near_le(l, image_center, cutoff) ==
  LET num == Abs((l[4] - l[2]) * image_center[1] - (l[3] - l[1]) * image_center[2]
                 + l[3] * l[2] - l[4] * l[1])
  IN  SqLen(l) > 0 /\ num * num <= cutoff * cutoff * SqLen(l)

\* d < cutoff for d = abs(...) / math.sqrt(...): with a positive square
\* length, num / sqrt(len2) < cutoff iff num^2 < cutoff^2 * len2.  For a
\* segment of length zero the numpy integers give 0 / 0.0 = nan, and
\* nan < cutoff is False.
seg_near(l, image_center, cutoff) ==
  LET num == Abs((l[4] - l[2]) * image_center[1] - (l[3] - l[1]) * image_center[2]
                 + l[3] * l[2] - l[4] * l[1])
  IN  SqLen(l) > 0 /\ num * num < cutoff * cutoff * SqLen(l)

\* Variant of longest_from with a slip: md <= d, so that the last entry of
\* maximal length is taken.
RECURSIVE longest_from_last(_, _, _)
longest_from_last(lines2, i, best) ==
  IF i > Len(lines2) THEN best
  ELSE IF lines2[i][1] /\ (best = 0 \/ SqLen(lines2[best][2]) <= SqLen(lines2[i][2]))
       THEN longest_from_last(lines2, i + 1, i)
       ELSE longest_from_last(lines2, i + 1, best)

\* The loop "find the length of the longest line": the index in lines2 of the
\* first included entry of maximal length, 0 if none is included (md is None).
RECURSIVE longest_from(_, _, _)
longest_from(lines2, i, best) ==
  IF i > Len(lines2) THEN best
  ELSE IF lines2[i][1] /\ (best = 0 \/ SqLen(lines2[best][2]) < SqLen(lines2[i][2]))
       THEN longest_from(lines2, i + 1, i)
       ELSE longest_from(lines2, i + 1, best)

Included(e) == e[1]

\* Variant of filter_lines with a slip: the angle threshold is pi / 4.
filter_lines_wide(lines, image_center, cutoff) ==
  LET lines2 == [i \in 1 .. Len(lines) |->
                   <<seg_near(lines[i], image_center, cutoff), lines[i]>>]
      m == longest_from(lines2, 1, 0)
  IN  IF m = 0 THEN lines2
      ELSE LET ml == lines2[m][2]
               a0 == line_angle(<<ml[1], ml[2]>>, <<ml[3], ml[4]>>)
               kept == SelectSeq(lines2, Included)
           IN  [i \in 1 .. Len(kept) |->
                  LET l == kept[i][2]
                      a1 == line_angle(<<l[1], l[2]>>, <<l[3], l[4]>>)
                      mt == difference_of_angles(a0, a1)
                  IN  <<4 * Abs(mt) < Pi, l>>]

filter_lines(lines, image_center, cutoff) ==
  LET lines2 == [i \in 1 .. Len(lines) |->
                   <<seg_near(lines[i], image_center, cutoff), lines[i]>>]
      m == longest_from(lines2, 1, 0)
  IN  IF m = 0 THEN lines2
      ELSE LET ml == lines2[m][2]
               a0 == line_angle(<<ml[1], ml[2]>>, <<ml[3], ml[4]>>)
               kept == SelectSeq(lines2, Included)
           IN  [i \in 1 .. Len(kept) |->
                  LET l == kept[i][2]
                      a1 == line_angle(<<l[1], l[2]>>, <<l[3], l[4]>>)
                      mt == difference_of_angles(a0, a1)
                  IN  <<8 * Abs(mt) < Pi, l>>]

\* -------------------------------------------------------- summarize_lines
RECURSIVE endpoint_angles(_, _)
endpoint_angles(lines, image_center) ==
  IF lines = << >> THEN << >>
  ELSE LET e == Head(lines)
           l == e[2]
           rest == endpoint_angles(Tail(lines), image_center)
       IN  IF e[1]
           THEN << line_angle(image_center, <<l[1], l[2]>>),
                   line_angle(image_center, <<l[3], l[4]>>) >> \o rest
           ELSE rest

\* Variant of summarize_lines with a slip: the inc flag is not looked at.
summarize_lines_all(lines, image_center) ==
  LET aa == endpoint_angles([i \in 1 .. Len(lines) |-> <<TRUE, lines[i][2]>>],
                            image_center)
  IN  IF aa # << >> THEN Some(mean_angles(aa)) ELSE None

summarize_lines(lines, image_center) ==
  LET aa == endpoint_angles(lines, image_center)
  IN  IF aa # << >> THEN Some(mean_angles(aa)) ELSE None

\* ----------------------------------------------------------- arrow_common
\* c_image_center(w, h) for the 640x480 frames the camera is set to.
c_image_center(w, h) == <<w \div 2 + c_center_offset[1], h \div 2 + c_center_offset[2]>>

\* arrow_common from the cv2.HoughLinesP result on: None when no line was
\* detected, else the filtered lines and their summarised theta.
arrow_common(lines, image_center) ==
  IF lines = None
  THEN [lines |-> None, theta |-> None]
  ELSE LET fl == filter_lines(lines[1], image_center, c_inner_mask_r \div 4)
       IN  [lines |-> Some(fl), theta |-> summarize_lines(fl, image_center)]

\* ======================================================================
\* filter_lines called on its own (specification SpecLines)
\* ======================================================================
\* Longest list of detected lines explored.
MaxLines == 2

\* The segment from pivot + (dx1, dy1) to pivot + (dx2, dy2), the pivot being
\* the initial image centre (338, 234).
Seg(dx1, dy1, dx2, dy2) == <<338 + dx1, 234 + dy1, 338 + dx2, 234 + dy2>>

\* Detected segments: through the pivot at several orientations and in both
\* directions, parallel ones offset by 4, 5 and 6 pixels (the cutoff is 5),
\* short and long, slanted ones on either side of pi/8, and two of length 0.
SegSet ==
  { Seg(-6, 0, 6, 0), Seg(6, 0, -6, 0), Seg(0, -10, 0, 10), Seg(-8, -8, 8, 8),
    Seg(3, 1, 9, 3), Seg(-12, 5, 12, 5), Seg(-12, 6, 12, 6), Seg(-3, 4, 3, 4),
    Seg(-20, 4, 20, 4), Seg(2, 2, 2, 2), Seg(0, 0, 0, 0), Seg(-10, -4, 10, 0),
    Seg(-10, -6, 10, 4), Seg(-12, -5, 12, 5), Seg(-10, -4, 10, 4),
    Seg(6, -12, 6, 12), Seg(5, -12, 5, 12) }

RECURSIVE SeqsUpTo(_, _)
SeqsUpTo(S, n) ==
  IF n = 0 THEN {<< >>}
  ELSE LET shorter == SeqsUpTo(S, n - 1)
       IN  shorter \cup {Append(s, x) : s \in shorter, x \in S}

\* What cv2.HoughLinesP returns: None, or at least one line.
HoughResults == {None} \cup {Some(s) : s \in SeqsUpTo(SegSet, MaxLines) \ {<< >>}}

InitLines ==
  /\ theta_b_l = << >>
  /\ theta_r_l = << >>
  /\ pause_updates = FALSE
  /\ save = FALSE
  /\ record = FALSE
  /\ record_ind = 0
  /\ debug_view = FALSE
  /\ standalone = FALSE
  /\ tare_lst = << >>
  /\ tare_on = FALSE
  /\ c_center_offset = <<18, -6>>
  /\ mm_final = None
  /\ in_b = None
  /\ in_r = None
  /\ z_dropped = None
  /\ ncycles = 0
  /\ nkeys = 0
  /\ log_b = << >>
  /\ log_r = << >>
  /\ tw_theta_b_l = << >>
  /\ tw_theta_r_l = << >>
  /\ tw_tare_lst = << >>
  /\ tw_tare_on = FALSE
  /\ tw_mm_final = None
  /\ c_arg = None
  /\ c_out = None
  /\ f_arg \in {Some(h) : h \in HoughResults}
  /\ f_out = None
  /\ img = None
  /\ thresh = {}
  /\ skeleton = {}
  /\ iters = 0
  /\ thresh_buf = 0
  /\ sk_pc = "idle"
  /\ m_arg = None
  /\ m_out = None
  /\ zc = None
  /\ zc_rct = None
  /\ zc_pc = "idle"
  /\ zc_button = FALSE

\* One pass of arrow_common over the detected lines.
arrow_call ==
  /\ f_arg # None
  /\ f_out = None
  /\ f_out' = Some(arrow_common(f_arg[1], c_image_center(640, 480)))
  /\ UNCHANGED << theta_b_l, theta_r_l, pause_updates, save, record, record_ind,
                  debug_view, standalone, tare_lst, tare_on, c_center_offset,
                  mm_final, in_b, in_r, z_dropped, ncycles, nkeys, log_b, log_r,
                  tw_theta_b_l, tw_theta_r_l, tw_tare_lst, tw_tare_on, tw_mm_final,
                  c_arg, c_out, f_arg >>
  /\ UNCHANGED << img, thresh, skeleton, iters, thresh_buf, sk_pc, m_arg, m_out >>
  /\ UNCHANGED zcVars

NextLines == arrow_call

SpecLines == InitLines /\ [][NextLines]_vars

\* The detected lines given to filter_lines, and the list it returned.
LinesDone == f_out # None /\ f_arg[1] # None
LinesIn == f_arg[1][1]
LinesOut == f_out[1].lines[1]
Pivot == c_image_center(640, 480)
Cutoff == c_inner_mask_r \div 4

\* Perpendicular distance of the pivot from the supporting line of l, by
\* Lagrange's identity: with a = pivot - p1 and v = p2 - p1,
\* dist^2 * |v|^2 = |a|^2 |v|^2 - (a . v)^2.
DistSqTimesLen(l) ==
  LET ax == Pivot[1] - l[1]
      ay == Pivot[2] - l[2]
      vx == l[3] - l[1]
      vy == l[4] - l[2]
  IN  (ax * ax + ay * ay) * (vx * vx + vy * vy) - (ax * vx + ay * vy) * (ax * vx + ay * vy)

\* C10: filter_lines marks a segment included only if its perpendicular
\* distance from the pivot is strictly below the cutoff, whatever its length;
\* a segment of positive length whose supporting line passes through the pivot
\* always passes the distance test (it is in the returned list); a segment
\* farther than the cutoff is never included.
C10_IncludedOnlyNearPivot ==
  LinesDone =>
    /\ \A j \in 1 .. Len(LinesOut) :
         LinesOut[j][1] =>
           /\ SqLen(LinesOut[j][2]) > 0
           /\ DistSqTimesLen(LinesOut[j][2]) < Cutoff * Cutoff * SqLen(LinesOut[j][2])
    /\ \A i \in 1 .. Len(LinesIn) :
         (SqLen(LinesIn[i]) > 0 /\ DistSqTimesLen(LinesIn[i]) = 0) =>
           \E j \in 1 .. Len(LinesOut) : LinesOut[j][2] = LinesIn[i]
    /\ \A i \in 1 .. Len(LinesIn) :
         DistSqTimesLen(LinesIn[i]) > Cutoff * Cutoff * SqLen(LinesIn[i]) =>
           \A j \in 1 .. Len(LinesOut) : ~(LinesOut[j][1] /\ LinesOut[j][2] = LinesIn[i])

\* A short segment through the pivot came with a longer one 6 pixels off: the
\* short one is included, the long one is not.
C10_Witness ==
  /\ LinesDone
  /\ LinesIn = << Seg(-12, 6, 12, 6), Seg(3, 1, 9, 3) >>
  /\ \E j \in 1 .. Len(LinesOut) : LinesOut[j] = <<TRUE, Seg(3, 1, 9, 3)>>
  /\ \A j \in 1 .. Len(LinesOut) : LinesOut[j] # <<TRUE, Seg(-12, 6, 12, 6)>>

\* ======================================================================
\* Degenerate segments in filter_lines
\* ======================================================================
\* The divisor math.sqrt((y2 - y1) ** 2 + (x2 - x1) ** 2) of the distance is
\* 0.0 exactly for a segment whose endpoints coincide; the division is made
\* for every detected line, with no test of the divisor before it.
divides_by_zero(l) == SqLen(l) = 0

\* C11: a segment of length zero never makes filter_lines divide by zero
\* (or raise); filter_lines completes and the segment is not included.
C11_DegenerateIsGuarded ==
  LinesDone =>
    \A i \in 1 .. Len(LinesIn) :
      (LinesIn[i][1] = LinesIn[i][3] /\ LinesIn[i][2] = LinesIn[i][4]) =>
        /\ ~divides_by_zero(LinesIn[i])
        /\ \A j \in 1 .. Len(LinesOut) :
             ~(LinesOut[j][1] /\ LinesOut[j][2] = LinesIn[i])

\* filter_lines was given a segment of length zero next to a proper one: the
\* distance of the degenerate one was 0 / 0.0, it is not included, and the
\* proper one is.
C11_Witness ==
  /\ LinesDone
  /\ LinesIn = << Seg(2, 2, 2, 2), Seg(-6, 0, 6, 0) >>
  /\ divides_by_zero(LinesIn[1])
  /\ LinesOut = << <<TRUE, Seg(-6, 0, 6, 0)>> >>

\* ======================================================================
\* find_skeleton called on its own (specifications SpecSkel, FairSpecSkel)
\* ======================================================================
\* Width and height of the images explored.
SkelW == 4
SkelH == 3
\* iters is counted up to MaxIters and held there: the count is only
\* returned, never tested by the loop.
MaxIters == 8

Pixels == (0 .. SkelW - 1) \X (0 .. SkelH - 1)

\* cv2.getStructuringElement(cv2.MORPH_CROSS, (3, 3)): the pixel and its four
\* neighbours, those of them that lie in the image.
kernel(p) ==
  { q \in Pixels : Abs(q[1] - p[1]) + Abs(q[2] - p[2]) <= 1 }

\* cv2.threshold(img, 127, 255, 0): 255 where img > 127, else 0.
threshold(im) == { p \in Pixels : im[p] > 127 }

\* cv2.erode with the default border: a pixel stays if every pixel under the
\* kernel that lies in the image is set (outside the image counts as set).
erode(s) == { p \in Pixels : kernel(p) \subseteq s }

\* cv2.dilate with the default border: a pixel is set if some pixel under
\* the kernel is (outside the image counts as clear).
dilate(s) == { p \in Pixels : kernel(p) \cap s # {} }

\* cv2.subtract(a, b) on images of 0 and 255.
subtract(a, b) == a \ b

\* cv2.bitwise_or(a, b) on images of 0 and 255.
bitwise_or(a, b) == a \cup b

\* cv2.countNonZero
countNonZero(s) == Cardinality(s)

\* Images handed to find_skeleton: every image of values 0 and 255, the
\* values of the segmentation masks.
Images == [Pixels -> {0, 255}]

InitSkel ==
  /\ theta_b_l = << >>
  /\ theta_r_l = << >>
  /\ pause_updates = FALSE
  /\ save = FALSE
  /\ record = FALSE
  /\ record_ind = 0
  /\ debug_view = FALSE
  /\ standalone = FALSE
  /\ tare_lst = << >>
  /\ tare_on = FALSE
  /\ c_center_offset = <<18, -6>>
  /\ mm_final = None
  /\ in_b = None
  /\ in_r = None
  /\ z_dropped = None
  /\ ncycles = 0
  /\ nkeys = 0
  /\ log_b = << >>
  /\ log_r = << >>
  /\ tw_theta_b_l = << >>
  /\ tw_theta_r_l = << >>
  /\ tw_tare_lst = << >>
  /\ tw_tare_on = FALSE
  /\ tw_mm_final = None
  /\ c_arg = None
  /\ c_out = None
  /\ f_arg = None
  /\ f_out = None
  /\ img \in {Some(im) : im \in Images}
  /\ thresh = {}
  /\ skeleton = {}
  /\ iters = 0
  /\ thresh_buf = 0
  /\ sk_pc = "call"
  /\ m_arg = None
  /\ m_out = None
  /\ zc = None
  /\ zc_rct = None
  /\ zc_pc = "idle"
  /\ zc_button = FALSE

\* find_skeleton up to the loop: the zeroed arrays, the threshold, iters = 0.
find_skeleton_enter ==
  /\ sk_pc = "call"
  /\ skeleton' = {}
  /\ thresh' = threshold(img[1])
  /\ iters' = 0
  /\ sk_pc' = "loop"
  /\ UNCHANGED << theta_b_l, theta_r_l, pause_updates, save, record, record_ind,
                  debug_view, standalone, tare_lst, tare_on, c_center_offset,
                  mm_final, in_b, in_r, z_dropped, ncycles, nkeys, log_b, log_r,
                  tw_theta_b_l, tw_theta_r_l, tw_tare_lst, tw_tare_on, tw_mm_final,
                  c_arg, c_out, f_arg, f_out, img, thresh_buf, m_arg, m_out >>
  /\ UNCHANGED zcVars

\* One pass of the body of "while True": erode, dilate, subtract, or, swap,
\* count; the return when the working image has no pixel left.
find_skeleton_iter ==
  /\ sk_pc = "loop"
  /\ LET eroded == erode(thresh)
         temp == subtract(thresh, dilate(eroded))
     IN  /\ skeleton' = bitwise_or(skeleton, temp)
         /\ thresh' = eroded
         /\ thresh_buf' = 1 - thresh_buf
         /\ iters' = Min(iters + 1, MaxIters)
         /\ sk_pc' = IF countNonZero(eroded) = 0 THEN "done" ELSE "loop"
  /\ UNCHANGED << theta_b_l, theta_r_l, pause_updates, save, record, record_ind,
                  debug_view, standalone, tare_lst, tare_on, c_center_offset,
                  mm_final, in_b, in_r, z_dropped, ncycles, nkeys, log_b, log_r,
                  tw_theta_b_l, tw_theta_r_l, tw_tare_lst, tw_tare_on, tw_mm_final,
                  c_arg, c_out, f_arg, f_out, img, m_arg, m_out >>
  /\ UNCHANGED zcVars

NextSkel == find_skeleton_enter \/ find_skeleton_iter

SpecSkel == InitSkel /\ [][NextSkel]_vars

\* The interpreter keeps running the loop while it has not returned.
FairSpecSkel == SpecSkel /\ WF_vars(NextSkel)

\* C12: find_skeleton terminates for every binary mask: the foreground count
\* of the working image never increases from one iteration to the next, it
\* reaches zero after finitely many iterations, and then the skeleton and an
\* iteration count of at least 1 are returned.
C12_SkeletonTerminates ==
  /\ [][sk_pc = "loop" => countNonZero(thresh') <= countNonZero(thresh)]_vars
  /\ [](sk_pc = "done" => countNonZero(thresh) = 0 /\ iters >= 1)
  /\ <>(sk_pc = "done")

\* The mask with every pixel set has been eroded MaxIters times and every
\* pixel is still set: the loop is where it was after the first pass.
C12_Witness ==
  /\ sk_pc = "loop"
  /\ iters = MaxIters
  /\ thresh = Pixels
  /\ skeleton = {}

\* ======================================================================
\* summarize_lines and arrow_common
\* ======================================================================
\* What arrow_common returned as theta.
ThetaOut == f_out[1].theta

\* The pivot-relative angles of the two endpoints of entry e of a list of
\* included segments.
EndAngle(inc, k) ==
  LET l == inc[(k + 1) \div 2][2]
  IN  IF k % 2 = 1 THEN line_angle(Pivot, <<l[1], l[2]>>)
      ELSE line_angle(Pivot, <<l[3], l[4]>>)

\* C13: summarize_lines returns None exactly when no segment of the filtered
\* list is marked included; otherwise it returns the circular mean of the
\* pivot-relative angles of both endpoints of every included segment;
\* arrow_common returns theta None when no line was detected.
C13_SampleIffIncluded ==
  /\ (f_out # None /\ f_arg[1] = None) => ThetaOut = None
  /\ LinesDone =>
       LET inc == SelectSeq(LinesOut, Included)
       IN  /\ ThetaOut = None <=> inc = << >>
           /\ inc # << >> =>
                ThetaOut = Some(mean_angles([k \in 1 .. 2 * Len(inc) |-> EndAngle(inc, k)]))

\* A long segment passing 4 pixels from the pivot and a shorter one through
\* the pivot at right angles to it: the longer is included, the shorter is in
\* the list but not included, and theta is the mean of the two endpoint
\* angles of the longer one alone.
C13_Witness ==
  /\ LinesDone
  /\ LinesOut = << <<TRUE, Seg(-20, 4, 20, 4)>>, <<FALSE, Seg(0, -10, 0, 10)>> >>
  /\ ThetaOut = Some(mean_angles(<< line_angle(Pivot, <<318, 238>>),
                                    line_angle(Pivot, <<358, 238>>) >>))

\* ======================================================================
\* mean_angles called on its own (specification SpecMean)
\* ======================================================================
\* Spacing, in milliradians, of the angles explored.
MeanStep == 25

\* Angles from -2 pi to 4 pi on the grid, with the quarter turns and their
\* neighbours.
MeanAngles ==
  { a \in -TwoPi .. 2 * TwoPi : a % MeanStep = 0 }
    \cup { Pi \div 2, Pi - 1, Pi, Pi + 1, (3 * Pi) \div 2, TwoPi - 1, TwoPi }

InitMean ==
  /\ theta_b_l = << >>
  /\ theta_r_l = << >>
  /\ pause_updates = FALSE
  /\ save = FALSE
  /\ record = FALSE
  /\ record_ind = 0
  /\ debug_view = FALSE
  /\ standalone = FALSE
  /\ tare_lst = << >>
  /\ tare_on = FALSE
  /\ c_center_offset = <<18, -6>>
  /\ mm_final = None
  /\ in_b = None
  /\ in_r = None
  /\ z_dropped = None
  /\ ncycles = 0
  /\ nkeys = 0
  /\ log_b = << >>
  /\ log_r = << >>
  /\ tw_theta_b_l = << >>
  /\ tw_theta_r_l = << >>
  /\ tw_tare_lst = << >>
  /\ tw_tare_on = FALSE
  /\ tw_mm_final = None
  /\ c_arg = None
  /\ c_out = None
  /\ f_arg = None
  /\ f_out = None
  /\ img = None
  /\ thresh = {}
  /\ skeleton = {}
  /\ iters = 0
  /\ thresh_buf = 0
  /\ sk_pc = "idle"
  /\ m_arg \in {Some(<<a>>) : a \in MeanAngles}
  /\ m_out = None
  /\ zc = None
  /\ zc_rct = None
  /\ zc_pc = "idle"
  /\ zc_button = FALSE

\* One call of mean_angles.
mean_call ==
  /\ m_arg # None
  /\ m_out = None
  /\ m_out' = Some(mean_angles(m_arg[1]))
  /\ UNCHANGED << theta_b_l, theta_r_l, pause_updates, save, record, record_ind,
                  debug_view, standalone, tare_lst, tare_on, c_center_offset,
                  mm_final, in_b, in_r, z_dropped, ncycles, nkeys, log_b, log_r,
                  tw_theta_b_l, tw_theta_r_l, tw_tare_lst, tw_tare_on, tw_mm_final,
                  c_arg, c_out, f_arg, f_out, img, thresh, skeleton, iters,
                  thresh_buf, sk_pc, m_arg >>
  /\ UNCHANGED zcVars

NextMean == mean_call

SpecMean == InitMean /\ [][NextMean]_vars

MeanDone == m_out # None
MeanIn == m_arg[1]
MeanOut == m_out[1]

\* C14 as claimed: mean_angles([a]) returns a itself for every a in
\* [0, 2 pi).
C14_SingleIsIdentity ==
  (MeanDone /\ Len(MeanIn) = 1 /\ 0 <= MeanIn[1] /\ MeanIn[1] < TwoPi) =>
    MeanOut = MeanIn[1]

\* C14, amended: for a in [0, 2 pi), mean_angles([a]) returns the angle
\* congruent to a modulo 2 pi that atan2 yields: a itself for a in [0, pi],
\* and a - 2 pi, a negative angle, for a in (pi, 2 pi).
C14_SingleIsCongruent ==
  (MeanDone /\ Len(MeanIn) = 1 /\ 0 <= MeanIn[1] /\ MeanIn[1] < TwoPi) =>
    MeanOut = IF MeanIn[1] <= Pi THEN MeanIn[1] ELSE MeanIn[1] - TwoPi

\* mean_angles([3 pi / 2]) has returned -pi / 2.
C14_Witness ==
  /\ MeanDone
  /\ MeanIn = << (3 * Pi) \div 2 >>
  /\ MeanOut = (3 * Pi) \div 2 - TwoPi
  /\ MeanOut < 0

\* ======================================================================
\* Determinism of the measurement cycle (specification Spec)
\* ======================================================================
\* What a cycle returns as a function of the two histories it starts from
\* and of the frame alone: no flag and no tare state enters.
PipelineValue(h_b, h_r, f_b, f_r) ==
  LET b2 == IF f_b = None THEN h_b ELSE LastN(Append(h_b, f_b[1]), K)
      r2 == IF f_r = None THEN h_r ELSE LastN(Append(h_r, f_r[1]), K)
  IN  IF b2 = << >> \/ r2 = << >> THEN None
      ELSE Some(calc_mm(mean_angles(b2), mean_angles(r2), FALSE, << >>).mm_final)

\* C15: two cycles started from identical pointer histories on the identical
\* frame return the identical mm_final, whatever the tare state and the pause,
\* debug-view, record and save flags: the mm_final of every cycle is the one
\* value fixed by the histories it started from and its frame.
C15_Deterministic ==
  [][ncycles' # ncycles =>
       mm_final' = PipelineValue(theta_b_l, theta_r_l, in_b', in_r')]_vars

\* A reading was returned with tare on and accumulating and the debug view
\* on, histories and frame being those of the run in which 'z' was never
\* pressed, which returned the same reading.
C15_Witness ==
  /\ ncycles >= 1
  /\ tare_on
  /\ tare_lst # << >>
  /\ debug_view
  /\ mm_final # None
  /\ theta_b_l = tw_theta_b_l
  /\ theta_r_l = tw_theta_r_l
  /\ ~tw_tare_on
  /\ mm_final = tw_mm_final

\* ======================================================================
\* Control signals (specification Spec)
\* ======================================================================
\* C16: there is an operation that resets the histories: whenever both
\* pointer histories hold samples and the core can take a key or a frame,
\* some key press or some cycle leaves both histories empty (so that mm_final
\* is withheld until both pointers have delivered a new sample).
C16_ResetExists ==
  (theta_b_l # << >> /\ theta_r_l # << >> /\ nkeys < MaxKeys /\ ncycles < MaxCycles) =>
    \/ \E key \in Keys :
         ENABLED (process_key(key) /\ theta_b_l' = << >> /\ theta_r_l' = << >>)
    \/ \E f \in Frames :
         ENABLED (get_measurement(f[1], f[2]) /\ theta_b_l' = << >> /\ theta_r_l' = << >>)

\* A key was pressed after both pointers had delivered samples, and both
\* histories still hold them.
C16_Witness ==
  /\ nkeys = MaxKeys
  /\ log_b # << >>
  /\ log_r # << >>
  /\ theta_b_l = LastN(log_b, K)
  /\ theta_r_l = LastN(log_r, K)
  /\ mm_final # None

\* ======================================================================
\* Coarse/fine fusion (specification SpecCalc)
\* ======================================================================
\* mm_blended = mm_final + ball_diam / 2, as a multiple of 1/MmDen mm.
Blended == Out.mm_final + (c_haimer_ball_diam * MmDen) \div 2

\* The integer part of a millimetre value, as math.modf splits it off:
\* truncation towards zero.
Trunc(mm) == IF mm >= 0 THEN mm \div MmDen ELSE -((-mm) \div MmDen)

\* C17: for every input pair, after normalisation, mm_blended is congruent
\* to mm_b modulo 1 (mm_blended - mm_b is an integer) and is a nearest such
\* value to mm_r (|mm_blended - mm_r| <= 1/2), also when mm_r is negative and
\* when the fraction of mm_r and mm_b lie on opposite sides of the 0/1 wrap.
C17_BlendNearestCongruent ==
  CalcDone =>
    /\ (Blended - Out.mm_b) % MmDen = 0
    /\ 2 * Abs(Blended - Out.mm_r) <= MmDen

\* A negative mm_r whose fraction and mm_b lie on opposite sides of the wrap:
\* mm_blended is below mm_r, and mm_b above both, a whole number of turns away.
C17_Witness ==
  /\ CalcDone
  /\ Out.mm_r < 0
  /\ Blended < Out.mm_r
  /\ Out.mm_b > MmDen \div 2
  /\ Blended - Out.mm_b <= -MmDen
  /\ (Blended - Out.mm_b) % MmDen = 0

\* C18 as claimed: for every normalised input pair the integer part of
\* mm_blended equals the integer part of mm_r.
C18_IntegerPartPreserved ==
  (CalcDone /\ 0 <= ArgB /\ ArgB < TwoPi /\ 0 <= ArgR /\ ArgR < TwoPi) =>
    Trunc(Blended) = Trunc(Out.mm_r)

\* C18, amended: mm_blended lies within 1/2 of mm_r, so its integer part is
\* that of mm_r or differs from it by exactly one.
C18_IntegerPartWithinOne ==
  CalcDone =>
    /\ 2 * Abs(Blended - Out.mm_r) <= MmDen
    /\ Abs(Trunc(Blended) - Trunc(Out.mm_r)) <= 1

\* mm_r in the last quarter below a whole millimetre and mm_b in the first
\* quarter above zero: the blend carries into the next integer.
C18_Witness ==
  /\ CalcDone
  /\ 0 <= ArgB /\ ArgB < TwoPi /\ 0 <= ArgR /\ ArgR < TwoPi
  /\ Out.mm_r > 0
  /\ Trunc(Blended) = Trunc(Out.mm_r) + 1
  /\ 0 < Out.mm_b /\ 4 * Out.mm_b < MmDen
  /\ 4 * modf_frac(Out.mm_r) > 3 * MmDen

\* ======================================================================
\* The angle test of filter_lines (specification SpecLines)
\* ======================================================================
\* A detected segment passes the distance test.
IsNear(l) == SqLen(l) > 0 /\ DistSqTimesLen(l) < Cutoff * Cutoff * SqLen(l)

\* The near-pivot segments, in the order detected.
NearSeq == SelectSeq(LinesIn, IsNear)

\* The longest of them, the first of those of maximal length.
LongestNear ==
  NearSeq[CHOOSE i \in 1 .. Len(NearSeq) :
            \A j \in 1 .. Len(NearSeq) :
              \/ SqLen(NearSeq[j]) < SqLen(NearSeq[i])
              \/ SqLen(NearSeq[j]) = SqLen(NearSeq[i]) /\ i <= j]

\* The orientation angle of a segment as listed: line_angle from its first
\* endpoint to its second.
Orientation(l) == line_angle(<<l[1], l[2]>>, <<l[3], l[4]>>)

\* C19: filter_lines returns the near-pivot segments, each marked included
\* exactly if the signed circular difference between the orientation angle of
\* the longest near-pivot segment and its own is below pi / 8 in absolute
\* value; every other near-pivot segment is marked not included.
C19_AngleTest ==
  (LinesDone /\ NearSeq # << >>) =>
    /\ Len(LinesOut) = Len(NearSeq)
    /\ \A k \in 1 .. Len(NearSeq) :
         /\ LinesOut[k][2] = NearSeq[k]
         /\ LinesOut[k][1] <=>
              8 * Abs(difference_of_angles(Orientation(LongestNear),
                                           Orientation(NearSeq[k]))) < Pi

\* Two near-pivot segments listed left to right, the second slanted by more
\* than pi / 8 against the longer first: the first is included, the second is
\* not.
C19_Witness ==
  /\ LinesDone
  /\ LinesIn = << Seg(-20, 4, 20, 4), Seg(-10, -6, 10, 4) >>
  /\ NearSeq = LinesIn
  /\ LinesOut = << <<TRUE, Seg(-20, 4, 20, 4)>>, <<FALSE, Seg(-10, -6, 10, 4)>> >>

\* The same segment with its two endpoints listed in the other order.
Swapped(l) == <<l[3], l[4], l[1], l[2]>>

\* The inc flags of a list returned by filter_lines, in order.
Flags(out) == [j \in 1 .. Len(out) |-> out[j][1]]

\* C20: the inclusion decisions of filter_lines do not depend on the order
\* in which the two endpoints of a segment are listed: with the endpoints of
\* any one detected segment (the longest included) exchanged, filter_lines
\* marks the same segments included.
C20_EndpointOrderIrrelevant ==
  LinesDone =>
    \A i \in 1 .. Len(LinesIn) :
      Flags(filter_lines([LinesIn EXCEPT ![i] = Swapped(LinesIn[i])], Pivot, Cutoff))
        = Flags(LinesOut)

\* The same segment through the pivot was detected twice, once in each
\* direction: the one listed in the direction opposite to the first is not
\* included.
C20_Witness ==
  /\ LinesDone
  /\ LinesIn = << Seg(-6, 0, 6, 0), Seg(6, 0, -6, 0) >>
  /\ LinesIn[2] = Swapped(LinesIn[1])
  /\ LinesOut = << <<TRUE, Seg(-6, 0, 6, 0)>>, <<FALSE, Seg(6, 0, -6, 0)>> >>

\* ======================================================================
\* The longest near-pivot segment (specification SpecLines)
\* ======================================================================
\* Position in NearSeq of the longest near-pivot segment, the first of those
\* of maximal length.
LongestNearIdx ==
  CHOOSE i \in 1 .. Len(NearSeq) :
    \A j \in 1 .. Len(NearSeq) :
      \/ SqLen(NearSeq[j]) < SqLen(NearSeq[i])
      \/ SqLen(NearSeq[j]) = SqLen(NearSeq[i]) /\ i <= j

\* C21: if some detected segment passes the distance test, the longest
\* near-pivot segment (the first in input order of those of maximal length)
\* is marked included in the list filter_lines returns, and summarize_lines
\* yields a sample; if none passes, no segment is marked included (and there
\* is no sample).
C21_LongestAlwaysIncluded ==
  LinesDone =>
    /\ NearSeq # << >> =>
         /\ LongestNearIdx \in 1 .. Len(LinesOut)
         /\ LinesOut[LongestNearIdx] = <<TRUE, NearSeq[LongestNearIdx]>>
         /\ ThetaOut # None
    /\ NearSeq = << >> =>
         /\ \A j \in 1 .. Len(LinesOut) : ~LinesOut[j][1]
         /\ ThetaOut = None

\* Two near-pivot segments of the same length were detected, the second
\* pointing against the first: the first is the longest and is included, the
\* second is not, and there is a sample.
C21_Witness ==
  /\ LinesDone
  /\ LinesIn = << Seg(6, 0, -6, 0), Seg(-6, 0, 6, 0) >>
  /\ NearSeq = LinesIn
  /\ LongestNearIdx = 1
  /\ LinesOut = << <<TRUE, Seg(6, 0, -6, 0)>>, <<FALSE, Seg(-6, 0, 6, 0)>> >>
  /\ ThetaOut # None

\* ======================================================================
\* The tare accumulator across keys and cycles (specification Spec)
\* ======================================================================
\* C22: in every state reachable by key presses and measurement cycles in
\* any order, calc_mm.tare_lst is empty whenever calc_mm.tare_on is false;
\* the list grows by at most one pair per step, and only in a cycle, with tare
\* on, that ends with both pointer histories non-empty.
C22_TareOffMeansEmpty ==
  /\ [](~tare_on => tare_lst = << >>)
  /\ [][/\ Len(tare_lst') <= Len(tare_lst) + 1
        /\ Len(tare_lst') > Len(tare_lst) =>
             /\ ncycles' = ncycles + 1
             /\ tare_on
             /\ theta_b_l' # << >>
             /\ theta_r_l' # << >>]_vars

\* Tare is on after three cycles, the red pointer gave a sample in only two
\* of them, and the accumulator holds two pairs.
C22_Witness ==
  /\ tare_on
  /\ ncycles = 3
  /\ Len(log_r) = 2
  /\ Len(tare_lst) = 2

\* ======================================================================
\* z_camera.py: alignment by four mouse clicks (specification SpecZ)
\* ======================================================================
\* Longest plate_size_str typed.
MaxStr == 3

\* Positions the mouse reports.
ZPoints == { <<100, 100>>, <<200, 150>> }

\* cv2.EVENT_MOUSEMOVE, cv2.EVENT_LBUTTONDOWN, cv2.EVENT_LBUTTONUP.
EVENT_MOUSEMOVE == 0
EVENT_LBUTTONDOWN == 1
EVENT_LBUTTONUP == 4

\* Keys explored: '\r', backspace, ',', '1', 'a', 'f', 'l', Escape and 255
\* (no key).
ZKeys == {13, 8, 44, 49, 97, 102, 108, 27, 255}

\* The keys process_key appends to plate_size_str: '0'..'9', '.', ','.
DigitKeys == (48 .. 57) \cup {46, 44}

\* str.split(','): the pieces of s between the commas (key code 44).
RECURSIVE split(_, _)
split(s, cur) ==
  IF s = << >> THEN <<cur>>
  ELSE IF Head(s) = 44 THEN <<cur>> \o split(Tail(s), << >>)
  ELSE split(Tail(s), Append(cur, Head(s)))

\* float(x) succeeds on a piece made of digits and '.': it must hold a digit
\* and at most one '.'.
is_float(x) ==
  /\ \E i \in 1 .. Len(x) : x[i] \in 48 .. 57
  /\ Cardinality({i \in 1 .. Len(x) : x[i] = 46}) <= 1

\* The module globals and function statics of z_camera.py once main has
\* opened the window, registered click_and_crop and set standalone.
ZInitState ==
  [ pause_updates |-> FALSE, save |-> FALSE, record |-> FALSE, record_ind |-> 0,
    mouse_op |-> "", c_view |-> 3, warp_m |-> None, lock_path |-> FALSE,
    standalone |-> TRUE, in_alignment |-> FALSE, plate_size_str |-> << >>,
    c_machine_rect_1 |-> << >>, c_crop_rect |-> None,
    mouse_pts |-> << >>, mouse_moving |-> FALSE,
    mouse_sqr_pts |-> << >>, mouse_sqr_pts_done |-> FALSE ]

InitZ ==
  /\ theta_b_l = << >>
  /\ theta_r_l = << >>
  /\ pause_updates = FALSE
  /\ save = FALSE
  /\ record = FALSE
  /\ record_ind = 0
  /\ debug_view = FALSE
  /\ standalone = FALSE
  /\ tare_lst = << >>
  /\ tare_on = FALSE
  /\ c_center_offset = <<18, -6>>
  /\ mm_final = None
  /\ in_b = None
  /\ in_r = None
  /\ z_dropped = None
  /\ ncycles = 0
  /\ nkeys = 0
  /\ log_b = << >>
  /\ log_r = << >>
  /\ tw_theta_b_l = << >>
  /\ tw_theta_r_l = << >>
  /\ tw_tare_lst = << >>
  /\ tw_tare_on = FALSE
  /\ tw_mm_final = None
  /\ c_arg = None
  /\ c_out = None
  /\ f_arg = None
  /\ f_out = None
  /\ img = None
  /\ thresh = {}
  /\ skeleton = {}
  /\ iters = 0
  /\ thresh_buf = 0
  /\ sk_pc = "idle"
  /\ m_arg = None
  /\ m_out = None
  /\ zc = ZInitState
  /\ zc_rct = None
  /\ zc_pc = "measure"
  /\ zc_button = FALSE

\* The variables of haimer_camera.py and of the single-function
\* specifications, which z_camera.py never touches.
haimerVars ==
  << theta_b_l, theta_r_l, pause_updates, save, record, record_ind, debug_view,
     standalone, tare_lst, tare_on, c_center_offset, mm_final, in_b, in_r,
     z_dropped, ncycles, nkeys, log_b, log_r, tw_theta_b_l, tw_theta_r_l, tw_tare_lst,
     tw_tare_on, tw_mm_final, c_arg, c_out, f_arg, f_out,
     img, thresh, skeleton, iters, thresh_buf, sk_pc, m_arg, m_out >>

\* s with its last entry replaced by v (s[-1] = v), s not empty.
set_last(s, v) == [s EXCEPT ![Len(s)] = v]

\* click_and_crop(event, x, y, flags, param), on the state st.
click_and_crop(st, event, pt) ==
  IF event = EVENT_LBUTTONDOWN
  THEN LET s1 == Append(st.mouse_sqr_pts, pt)
       IN  [st EXCEPT !.mouse_pts = <<pt, None>>,
                      !.mouse_sqr_pts = IF Len(s1) = 1 THEN Append(s1, pt) ELSE s1]
  ELSE IF event = EVENT_MOUSEMOVE
  THEN IF Len(st.mouse_sqr_pts) = 0
       THEN [st EXCEPT !.mouse_sqr_pts = <<pt>>]
       ELSE IF Len(st.mouse_sqr_pts) = 1
       THEN [st EXCEPT !.mouse_sqr_pts = <<pt>>]
       ELSE IF Len(st.mouse_pts) = 2
       THEN [st EXCEPT !.mouse_pts = <<st.mouse_pts[1], pt>>,
                       !.mouse_moving = TRUE,
                       !.mouse_sqr_pts = set_last(st.mouse_sqr_pts, pt)]
       ELSE st
  ELSE IF event = EVENT_LBUTTONUP
  THEN LET st1 == IF Len(st.mouse_pts) = 2
                  THEN [st EXCEPT !.mouse_pts = <<st.mouse_pts[1], pt>>,
                                  !.mouse_moving = FALSE]
                  ELSE st
       IN  IF ~st1.mouse_sqr_pts_done /\ st1.mouse_sqr_pts = << >>
           \* mouse_sqr_pts[-1] on the empty list: IndexError, which ends the
           \* callback (cv2 prints it and goes on).
           THEN st1
           ELSE LET st2 == IF ~st1.mouse_sqr_pts_done
                           THEN [st1 EXCEPT !.mouse_sqr_pts = set_last(st1.mouse_sqr_pts, pt)]
                           ELSE st1
                IN  IF Len(st2.mouse_sqr_pts) > 4
                    THEN [st2 EXCEPT !.mouse_sqr_pts = SubSeq(st2.mouse_sqr_pts, 1, 4),
                                     !.mouse_sqr_pts_done = TRUE]
                    ELSE st2
  ELSE st

\* A mouse event delivered while main sits in cv2.waitKey.  The left button
\* goes down only when up and up only when down.
ZMouse(event, pt) ==
  /\ zc_pc = "wait"
  /\ event = EVENT_LBUTTONDOWN => ~zc_button
  /\ event = EVENT_LBUTTONUP => zc_button
  /\ zc' = click_and_crop(zc, event, pt)
  /\ zc_button' = IF event = EVENT_LBUTTONDOWN THEN TRUE
                  ELSE IF event = EVENT_LBUTTONUP THEN FALSE ELSE zc_button
  /\ UNCHANGED << zc_rct, zc_pc >>
  /\ UNCHANGED haimerVars

\* z_camera.get_measurement, first part (to the images written), on st.
z_measure_head(st) ==
  LET st1 == IF ~st.standalone THEN [st EXCEPT !.record = FALSE, !.save = FALSE] ELSE st
      st2 == IF st1.standalone /\ st1.record
             THEN [st1 EXCEPT !.record_ind = st1.record_ind + 1] ELSE st1
  IN  IF st2.standalone /\ st2.save THEN [st2 EXCEPT !.save = FALSE] ELSE st2

\* get_measurement reaches the building of the perspective transform.
z_consumes(st) ==
  /\ ~st.pause_updates
  /\ st.mouse_op = "alignment"
  /\ st.c_view = 1
  /\ st.mouse_sqr_pts_done

\* ... the part "if c_view not in [1, 2]" that follows it.
z_measure_tail(st) ==
  IF ~st.pause_updates /\ st.c_view \notin {1, 2}
  THEN [st EXCEPT !.mouse_pts = << >>, !.mouse_moving = FALSE]
  ELSE st

\* z_camera.get_measurement(video_capture), called by main.  Of warp_m and
\* c_crop_rect only whether they are set is kept.
\* cv2.getPerspectiveTransform(rct, dst) takes exactly four points in rct;
\* with any other number it raises cv2.error, which main does not catch.
z_get_measurement ==
  /\ zc_pc = "measure"
  /\ LET st1 == z_measure_head(zc)
     IN  IF z_consumes(st1)
         THEN /\ zc_rct' = Some(Len(st1.mouse_sqr_pts))
              /\ IF Len(st1.mouse_sqr_pts) = 4
                 THEN /\ zc' = z_measure_tail(
                                 [st1 EXCEPT !.warp_m = Some("transform"),
                                             !.c_crop_rect = Some("rect"),
                                             !.mouse_sqr_pts = << >>,
                                             !.mouse_sqr_pts_done = FALSE,
                                             !.c_view = 3,
                                             !.mouse_op = "",
                                             !.in_alignment = TRUE])
                      /\ zc_pc' = "wait"
                 ELSE /\ zc' = st1
                      /\ zc_pc' = "crashed"
         ELSE /\ zc' = z_measure_tail(st1)
              /\ zc_pc' = "wait"
              /\ UNCHANGED zc_rct
  /\ UNCHANGED zc_button
  /\ UNCHANGED haimerVars

\* z_camera.process_key(key), on st.
z_process_key_st(st, key) ==
  IF st.in_alignment
  THEN IF key = 97
       THEN [st EXCEPT !.mouse_op = "alignment", !.c_view = 1,
                       !.mouse_sqr_pts = << >>, !.mouse_sqr_pts_done = FALSE,
                       !.in_alignment = FALSE, !.plate_size_str = << >>]
       ELSE IF key \in DigitKeys
       THEN [st EXCEPT !.plate_size_str = Append(st.plate_size_str, key)]
       ELSE IF key = 13
       THEN LET pieces == split(st.plate_size_str, << >>)
                st1 == [st EXCEPT !.in_alignment = FALSE, !.plate_size_str = << >>]
            IN  IF \E i \in 1 .. Len(pieces) : ~is_float(pieces[i])
                THEN [st1 EXCEPT !.c_crop_rect = None, !.warp_m = None]
                ELSE IF Len(pieces) = 2
                THEN [st1 EXCEPT !.c_machine_rect_1 = pieces, !.pause_updates = TRUE]
                ELSE st1
       ELSE IF key = 8
       THEN [st EXCEPT !.plate_size_str =
                         SubSeq(st.plate_size_str, 1, Len(st.plate_size_str) - 1)]
       ELSE st
  ELSE IF key = 102
  THEN [st EXCEPT !.pause_updates = ~st.pause_updates]
  ELSE IF key = 108
  THEN [st EXCEPT !.lock_path = ~st.lock_path,
                  !.pause_updates = IF ~st.lock_path THEN TRUE ELSE st.pause_updates]
  ELSE IF key = 114
  THEN [st EXCEPT !.record = ~st.record]
  ELSE IF key = 115
  THEN [st EXCEPT !.save = TRUE]
  ELSE IF key = 97
  THEN [st EXCEPT !.mouse_op = "alignment", !.c_view = 1, !.pause_updates = FALSE,
                  !.lock_path = FALSE, !.mouse_sqr_pts = << >>,
                  !.mouse_sqr_pts_done = FALSE]
  ELSE IF key \in 48 .. 51
  THEN [st EXCEPT !.c_view = key - 48]
  ELSE st

\* main: key = cv2.waitKey(5) & 0xff; process_key(key).  Escape and 'q' raise
\* QuitException, which ends the loop.
z_process_key(key) ==
  /\ zc_pc = "wait"
  /\ (zc.in_alignment /\ key \in DigitKeys) => Len(zc.plate_size_str) < MaxStr
  /\ zc' = z_process_key_st(zc, key)
  /\ zc_pc' = IF key \in {27, 113} THEN "quit" ELSE "measure"
  /\ UNCHANGED << zc_rct, zc_button >>
  /\ UNCHANGED haimerVars

ZMouseEvent ==
  \E event \in {EVENT_MOUSEMOVE, EVENT_LBUTTONDOWN, EVENT_LBUTTONUP}, pt \in ZPoints :
    ZMouse(event, pt)

ZKey == \E key \in ZKeys : z_process_key(key)

NextZ == z_get_measurement \/ ZMouseEvent \/ ZKey

SpecZ == InitZ /\ [][NextZ]_vars

\* C23: whenever get_measurement builds the perspective transform from the
\* alignment points (mouse_sqr_pts_done true, mouse_op 'alignment', view 1,
\* updates not paused), mouse_sqr_pts holds exactly 4 points.
C23_FourPointsWhenConsumed ==
  /\ zc_rct # None => zc_rct = Some(4)
  /\ (zc_pc = "measure" /\ z_consumes(z_measure_head(zc))) =>
       Len(zc.mouse_sqr_pts) = 4

\* The fourth corner was released and the button pressed again before the
\* next frame: get_measurement built rct from five points, with the flag
\* still set.
C23_Witness ==
  /\ zc_pc = "crashed"
  /\ zc_rct = Some(5)
  /\ zc.mouse_sqr_pts_done
  /\ Len(zc.mouse_sqr_pts) = 5
  /\ zc_button

====
